---- MODULE Spec2Model ----
(***************************************************************************)
(* Shared external-service access layer of the agent platform:             *)
(*   - RequestQueue (twitter base client): add / processQueue              *)
(*   - TwitterService.createClient registry                                *)
(*   - TwitterService.stopClient, ClientBase's calls to the endpoint       *)
(*   - SolanaService start / stop / timer / updateWalletData,              *)
(*     fetchWithRetry                                                      *)
(*   - ClientBase.populateTimeline (timeline reconciliation)               *)
(*   - knowledge: preprocess, set (ingestion), get (retrieval)             *)
(*   - formatRelationships (relationship summary)                          *)
(*   - ClientBase.getTweet / cacheTweet (cache-aside tweet lookup)         *)
(*   - ClientBase.init (login loop)                                        *)
(* Each subsystem has its own specification over the shared variables.     *)
(***************************************************************************)
EXTENDS Integers, Sequences, FiniteSets, TLC

\* ------------------------------------------------------------------ bounds
MaxTasks == 3
MaxFails == 2
MaxCalls == 3
MaxInst == 2
MaxInflight == 2
MaxClockSteps == 1
MaxTweets == 3
MaxMentions == 1
MaxRuns == 2
MaxStopCalls == 2
MaxDepth == 2
MaxChunks == 2
MaxSetRuns == 3
MaxTextLen == 4
MaxMatches == 4
MaxEdges == 40
MaxGetCalls == 3
MaxRetryLimit == 2

\* ------------------------------------------------------- program constants
UPDATE_INTERVAL == 120000
MAX_RETRIES == 3
RETRY_DELAY == 2000
DEFAULT_RETRY_LIMIT == 3

\* The clock moves in steps of one update interval.
ClockStep == UPDATE_INTERVAL

\* ------------------------------------------------------------------- state
\* RequestQueue
VARIABLES
    queue,        \* RequestQueue.queue: the wrappers waiting, by task
    processing,   \* RequestQueue.processing
    loopPc,       \* loopPc[t]: where the processQueue() call made by add(t) is
    loopReq,      \* loopReq[t]: the wrapper that call has shifted and is running
    running,      \* running[t]: executions of task t started and not settled
    attempts,     \* attempts[t]: times the task's request() has been called
    plan,         \* plan[t]: how many of the task's first attempts fail
    promise,      \* promise[t]: state of the promise add(t) returned
    settleCalls,  \* settleCalls[t]: calls of resolve/reject made for it
    delays,       \* delays[t]: backoff sleeps taken after failures of t
    addedIn       \* addedIn[t]: where the active loop was when add(t) was called

qvars == <<queue, processing, loopPc, loopReq, running, attempts, plan,
           promise, settleCalls, delays, addedIn>>

\* TwitterService
VARIABLES
    clients,      \* TwitterService.clients: key -> instance (0: no entry)
    instKey,      \* instKey[i]: the key the i-th TwitterClientInstance was built for
    started,      \* instances whose post/interaction clients were started
    ccPc,         \* ccPc[c]: where the c-th createClient call is
    ccKey,        \* ccKey[c]: the key of that call
    ccInst,       \* ccInst[c]: the instance the call built or returned
    scPc,         \* where the stopClient call is
    scKey,        \* the key it was called for
    scDepth,      \* stopAllClients() calls waiting for the stop() they called
                  \* (MaxDepth: that many or more)
    scCalls       \* stopClient calls made

twvars == <<clients, instKey, started, ccPc, ccKey, ccInst, scPc, scKey,
            scDepth, scCalls>>

\* SolanaService
VARIABLES
    solCount,       \* SolanaService instances constructed so far
    solTimer,       \* solTimer[i]: updateInterval of instance i is armed
    solPublicKey,   \* solPublicKey[i]: getWalletKey's then() has set publicKey
    solLastUpdate,  \* solLastUpdate[i]: lastUpdate of instance i
    clock,          \* Date.now()
    walletCache,    \* cache entry SOLANA_WALLET_DATA_CACHE_KEY (NoSnapshot: none)
    solCalls,       \* updateWalletData calls waiting on the external source
    birdeyeKey,     \* the BIRDEYE_API_KEY setting is set
    solStopped,     \* solStopped[i]: stop() has returned on instance i
    solLast,        \* the last call made on the service and how it went
    solTickFailed   \* solTickFailed[i]: a refresh made by a tick of i has failed

solvars == <<solCount, solTimer, solPublicKey, solLastUpdate, clock,
             walletCache, solCalls, birdeyeKey, solStopped, solLast,
             solTickFailed>>

\* ClientBase.populateTimeline
VARIABLES
    selfTweet,        \* the tweet the agent's own profile authored (0: none)
    fetchedTimeline,  \* what fetchHomeTimeline returns
    fetchedMentions,  \* what fetchSearchTweets returns
    mem,              \* the "messages" memory store: records [id, roomId]
    cachedTimeline,   \* cache entry twitter/<username>/timeline
    cachedMentions,   \* cache entry twitter/<username>/mentions
    tweetCache,       \* ids of the tweets under twitter/tweets/<id>
    tlPc,             \* where the populateTimeline call is
    tlPath,           \* the path it took: "cached" or "fetch"
    tlBatch,          \* the tweets it works on (cachedTimeline or allTweets)
    tlTodo,           \* the rest of tweetsToSave
    tlMemStart,       \* the memory ids in the store when the call began
    tlCreated,        \* tweets the call has created a Memory for
    tlCreateCalls,    \* tweets the call has called createMemory for, in order
    tlRuns,           \* populateTimeline calls begun
    tlOkRuns          \* populateTimeline calls that returned normally

tlvars == <<selfTweet, fetchedTimeline, fetchedMentions, mem, cachedTimeline,
            cachedMentions, tweetCache, tlPc, tlPath, tlBatch, tlTodo,
            tlMemStart, tlCreated, tlCreateCalls, tlRuns, tlOkRuns>>

\* ClientBase: the calls it makes to the Twitter endpoint
VARIABLES
    callKind,     \* callKind[t]: the ClientBase method that adds request t
    abandoned,    \* requests whose race the timeout won, still unanswered
    direct        \* calls made on twitterClient without the requestQueue

cbvars == <<callKind, abandoned, direct>>

\* knowledge.set
VARIABLES
    docText,      \* docText[d]: item.content.text of item d
    docStore,     \* documentsManager: the ids of the document records
    fragStore,    \* knowledgeManager: the fragment records
    ksPc,         \* where the set() call is
    ksDoc,        \* the item it was called with
    ksI,          \* the loop index i
    ksIds,        \* the ids of the fragments the call has persisted
    ksFirst,      \* ksFirst[d]: the same of the first set() of d that completed
    ksRuns        \* set() calls begun; also Date.now() of the call

kvars == <<docText, docStore, fragStore, ksPc, ksDoc, ksI, ksIds, ksFirst,
           ksRuns>>
\* knowledge.preprocess
VARIABLES
    ppText,       \* the content preprocess() is called with
    ppOnce,       \* preprocess(content)
    ppTwice,      \* preprocess(preprocess(content))
    ppPc          \* how many times it has been applied

ppvars == <<ppText, ppOnce, ppTwice, ppPc>>

\* knowledge.get
VARIABLES
    kgQuery,      \* message.content.text
    kgMatches,    \* what searchMemories returns: the fragments, best first
    kgLookup,     \* kgLookup[d]: how documentsManager.getMemoryById(d) ends
    kgPc,         \* where the get() call is
    kgResult      \* the KnowledgeItem[] it returned

kgvars == <<kgQuery, kgMatches, kgLookup, kgPc, kgResult>>

\* formatRelationships
VARIABLES
    relList,      \* the relationships it is called with
    relLookup,    \* relLookup[e]: how getEntityById(e) ends
    relPc,        \* where the formatRelationships call is
    relOut        \* the text it returned: the rendered edges, in order

relvars == <<relList, relLookup, relPc, relOut>>

\* SolanaService.fetchWithRetry
VARIABLES
    fwUrl,        \* the url it is called with
    fwI,          \* the loop index i
    fwPc,         \* where the fetchWithRetry call is
    fwAttempts,   \* how each fetch attempt made so far went, in order
    fwSleeps,     \* the delays of the setTimeout calls made so far, in order
    fwLastError,  \* lastError
    fwResult      \* what the call returned or threw

fwvars == <<fwUrl, fwI, fwPc, fwAttempts, fwSleeps, fwLastError, fwResult>>

\* ClientBase.getTweet: the tweets the cache holds, the setCache writes
\* cacheTweet has started and nobody awaits, each getTweet call (position,
\* tweet id, how it ended), the requests added to the requestQueue and the
\* ids some getTweet has resolved with a tweet for.
VARIABLES gtCache, gtWrites, gtPc, gtId, gtServed, gtAdds, gtResolved
gtvars == <<gtCache, gtWrites, gtPc, gtId, gtServed, gtAdds, gtResolved>>

\* ClientBase.init: TWITTER_RETRY_LIMIT in the client's state and in the
\* runtime settings, the local `retries`, where init() stands, the loop
\* iterations begun, what the last isLoggedIn() call gave, and whether some
\* isLoggedIn() call has returned true.
VARIABLES lgState, lgSetting, lgRetries, lgPc, lgAttempts, lgLast, lgEver
lgvars == <<lgState, lgSetting, lgRetries, lgPc, lgAttempts, lgLast, lgEver>>

vars == <<qvars, twvars, solvars, tlvars, cbvars, kvars, ppvars, kgvars, relvars, fwvars, gtvars, lgvars>>

\* What the actions of one subsystem leave alone.
notQueue == <<twvars, solvars, tlvars, cbvars, kvars, ppvars, kgvars, relvars, fwvars, gtvars, lgvars>>
notTwitter == <<qvars, solvars, tlvars, cbvars, kvars, ppvars, kgvars, relvars, fwvars, gtvars, lgvars>>
notSolana == <<qvars, twvars, tlvars, cbvars, kvars, ppvars, kgvars, relvars, fwvars, gtvars, lgvars>>
notTimeline == <<qvars, twvars, solvars, cbvars, kvars, ppvars, kgvars, relvars, fwvars, gtvars, lgvars>>
notClientBase == <<twvars, solvars, tlvars, kvars, ppvars, kgvars, relvars, fwvars, gtvars, lgvars>>
notKnowledge == <<qvars, twvars, solvars, tlvars, cbvars, ppvars, kgvars, relvars, fwvars, gtvars, lgvars>>
notPreprocess == <<qvars, twvars, solvars, tlvars, cbvars, kvars, kgvars, relvars, fwvars, gtvars, lgvars>>
notKnowledgeGet == <<qvars, twvars, solvars, tlvars, cbvars, kvars, ppvars, relvars, fwvars, gtvars, lgvars>>
notRelationships == <<qvars, twvars, solvars, tlvars, cbvars, kvars, ppvars, kgvars, fwvars, gtvars, lgvars>>
notFetchWithRetry == <<qvars, twvars, solvars, tlvars, cbvars, kvars, ppvars, kgvars, relvars, gtvars, lgvars>>
notGetTweet == <<qvars, twvars, solvars, tlvars, cbvars, kvars, ppvars, kgvars, relvars, fwvars, lgvars>>
notLogin == <<qvars, twvars, solvars, tlvars, cbvars, kvars, ppvars, kgvars, relvars, fwvars, gtvars>>

\* ------------------------------------------------------------ RequestQueue
Tasks == 1..MaxTasks

\* Tasks are named in the order add() is called for them.
Added(t) == promise[t] # "none"
NextTask == IF \E t \in Tasks : ~Added(t)
            THEN CHOOSE t \in Tasks : ~Added(t) /\ \A u \in Tasks : u < t => Added(u)
            ELSE 0

QInit ==
    /\ queue = << >>
    /\ processing = FALSE
    /\ loopPc = [t \in Tasks |-> "idle"]
    /\ loopReq = [t \in Tasks |-> 0]
    /\ running = [t \in Tasks |-> 0]
    /\ attempts = [t \in Tasks |-> 0]
    /\ plan = [t \in Tasks |-> 0]
    /\ promise = [t \in Tasks |-> "none"]
    /\ settleCalls = [t \in Tasks |-> 0]
    /\ delays = [t \in Tasks |-> << >>]
    /\ addedIn = [t \in Tasks |-> "none"]

\* The entry test without `this.processing`: a loop per add().
ProcessQueueEntersNoGuard(proc, q) == Len(q) > 0

\* processQueue's entry test: it goes on only when no loop is active and
\* something is queued.
ProcessQueueEnters(proc, q) == ~(proc \/ Len(q) = 0)

\* pop() in place of shift(): the newest request first.
ShiftLast(q) == <<q[Len(q)], SubSeq(q, 1, Len(q) - 1)>>

\* this.queue.shift(): the request taken and the queue left.
Shift(q) == <<Head(q), Tail(q)>>

\* The outcome of the k-th call of task t's request().
AttemptFails(t, k) == k <= plan[t]

\* A wrapper that rejects the caller's promise and rethrows the error.
WrapperRethrows(failed) == failed

\* The wrapper add() pushes: try { resolve(await request()) } catch { reject }.
\* Its own promise rejects (so that processQueue's catch runs) only when the
\* error escapes the wrapper; the wrapper's catch lets none escape.
WrapperThrows(failed) == FALSE

\* exponentialBackoff(retryCount): the delay in ms.
ExponentialBackoff(retryCount) == (2 ^ retryCount) * 1000

\* resolve()/reject() on a promise: only the first call settles it.
Settle(p, failed) ==
    IF p = "pending" THEN (IF failed THEN "rejected" ELSE "resolved") ELSE p

\* The loop body from `const request = this.queue.shift()` to the await of
\* request(): the wrapper starts and calls the task's request() synchronously.
StartNext(l, q) ==
    LET sh == Shift(q)
        h  == sh[1]
    IN /\ queue' = sh[2]
       /\ loopReq' = [loopReq EXCEPT ![l] = h]
       /\ loopPc' = [loopPc EXCEPT ![l] = "await"]
       /\ running' = [running EXCEPT ![h] = @ + 1]
       /\ attempts' = [attempts EXCEPT ![h] = @ + 1]

\* Where the processQueue() call that is under way stands: "idle" when none.
ActiveLoopPc ==
    IF \E l \in Tasks : loopPc[l] # "idle"
    THEN loopPc[CHOOSE l \in Tasks : loopPc[l] # "idle"]
    ELSE "idle"

\* add(request): push the wrapper, then processQueue() up to its first await.
Add(t, p) ==
    /\ t = NextTask
    /\ addedIn' = [addedIn EXCEPT ![t] = ActiveLoopPc]
    /\ promise' = [promise EXCEPT ![t] = "pending"]
    /\ plan' = [plan EXCEPT ![t] = p]
    /\ LET q == Append(queue, t)
       IN IF ProcessQueueEnters(processing, q)
          THEN /\ processing' = TRUE
               /\ StartNext(t, q)
          ELSE /\ queue' = q
               /\ UNCHANGED <<processing, loopReq, loopPc, running, attempts>>
    /\ UNCHANGED <<settleCalls, delays>>
    /\ UNCHANGED notQueue

\* The awaited request() of loop l settles: the wrapper resolves or rejects
\* the caller's promise; processQueue goes on to its catch block or to
\* randomDelay().
TaskSettles(l) ==
    /\ loopPc[l] = "await"
    /\ LET h == loopReq[l]
           failed == AttemptFails(h, attempts[h])
       IN /\ running' = [running EXCEPT ![h] = @ - 1]
          /\ promise' = [promise EXCEPT ![h] = Settle(@, failed)]
          /\ settleCalls' = [settleCalls EXCEPT ![h] = @ + 1]
          /\ IF WrapperThrows(failed)
             THEN /\ queue' = <<h>> \o queue
                  /\ delays' = [delays EXCEPT
                                  ![h] = Append(@, ExponentialBackoff(Len(queue) + 1))]
                  /\ loopPc' = [loopPc EXCEPT ![l] = "backoff"]
             ELSE /\ loopPc' = [loopPc EXCEPT ![l] = "delay"]
                  /\ UNCHANGED <<queue, delays>>
    /\ UNCHANGED <<processing, loopReq, attempts, plan, addedIn>>
    /\ UNCHANGED notQueue

\* An `if` for the `while`: the loop ends after one request.
LoopEndsAfterRequest(q) == FALSE

\* while (this.queue.length > 0), tested again after randomDelay().
LoopGoesOn(q) == Len(q) > 0

\* A sleep of loop l ends: after exponentialBackoff comes randomDelay; after
\* randomDelay the while test, then the next request or `processing = false`.
TimerFires(l) ==
    /\ loopPc[l] \in {"backoff", "delay"}
    /\ IF loopPc[l] = "backoff"
       THEN /\ loopPc' = [loopPc EXCEPT ![l] = "delay"]
            /\ UNCHANGED <<queue, processing, loopReq, running, attempts>>
       ELSE IF LoopGoesOn(queue)
            THEN /\ StartNext(l, queue)
                 /\ UNCHANGED processing
            ELSE /\ processing' = FALSE
                 /\ loopPc' = [loopPc EXCEPT ![l] = "idle"]
                 /\ loopReq' = [loopReq EXCEPT ![l] = 0]
                 /\ UNCHANGED <<queue, running, attempts>>
    /\ UNCHANGED <<plan, promise, settleCalls, delays, addedIn>>
    /\ UNCHANGED notQueue

QNext ==
    \/ \E t \in Tasks, p \in 0..MaxFails : Add(t, p)
    \/ \E l \in Tasks : TaskSettles(l)
    \/ \E l \in Tasks : TimerFires(l)

\* ------------------------------------------- ClientBase's external calls
\* The methods that put their call of twitterClient into the requestQueue,
\* and those that call twitterClient themselves.
QueuedKinds == {"getTweet", "fetchProfile", "fetchSearchTweets",
                "fetchInteractions", "fetchFollowerChanges"}
DirectKinds == {"fetchHomeTimeline", "fetchOwnPosts"}

\* The kinds told apart here: getTweet stands for the four methods whose
\* request is the bare call of twitterClient.
CallKinds == {"getTweet", "fetchSearchTweets"}

\* The request is Promise.race([call, timeoutPromise]): fetchSearchTweets
\* only; the other methods add the bare call.
RacesTimeout(kind) == kind = "fetchSearchTweets"

\* Requests are made through add() with any method; nothing is in flight.
CbIdle ==
    /\ callKind = [t \in Tasks |-> "getTweet"]
    /\ abandoned = {}
    /\ direct = {}
CbInit ==
    /\ callKind \in [Tasks -> CallKinds]
    /\ abandoned = {}
    /\ direct = {}

\* The calls of twitterClient that have been made and not answered: the
\* request the queue is running, the requests given up by a timeout, and the
\* direct calls.
ExternalInFlight ==
    {<<"queued", t>> : t \in {u \in Tasks : running[u] > 0} \cup abandoned}
        \cup {<<"direct", k>> : k \in direct}

\* The 15000 ms timer of the race fires before the call has answered: the
\* request resolves with { tweets: [] }, the call itself stays unanswered.
TimeoutFires(l) ==
    /\ loopPc[l] = "await"
    /\ RacesTimeout(callKind[loopReq[l]])
    /\ LET h == loopReq[l]
       IN /\ running' = [running EXCEPT ![h] = @ - 1]
          /\ promise' = [promise EXCEPT ![h] = Settle(@, FALSE)]
          /\ settleCalls' = [settleCalls EXCEPT ![h] = @ + 1]
          /\ abandoned' = abandoned \cup {h}
    /\ loopPc' = [loopPc EXCEPT ![l] = "delay"]
    /\ UNCHANGED <<queue, processing, loopReq, attempts, plan, delays, addedIn>>
    /\ UNCHANGED <<callKind, direct>>
    /\ UNCHANGED notClientBase

\* The call of a request that was given up answers after all.
LateAnswer(t) ==
    /\ t \in abandoned
    /\ abandoned' = abandoned \ {t}
    /\ UNCHANGED <<callKind, direct>>
    /\ UNCHANGED qvars
    /\ UNCHANGED notClientBase

\* fetchHomeTimeline / fetchOwnPosts: `await this.twitterClient. ...`.
DirectCallBegins(k) ==
    /\ k \notin direct
    /\ direct' = direct \cup {k}
    /\ UNCHANGED <<callKind, abandoned>>
    /\ UNCHANGED qvars
    /\ UNCHANGED notClientBase

DirectCallSettles(k) ==
    /\ k \in direct
    /\ direct' = direct \ {k}
    /\ UNCHANGED <<callKind, abandoned>>
    /\ UNCHANGED qvars
    /\ UNCHANGED notClientBase

\* The timers of the program: the races' timeouts and the queue's delays.
CbTimers == \E l \in Tasks : TimeoutFires(l) \/ TimerFires(l)

CbNext ==
    \/ \E t \in Tasks, p \in 0..MaxFails : Add(t, p)
    \/ \E l \in Tasks : TaskSettles(l)
    \/ \E l \in Tasks : TimerFires(l)
    \/ \E l \in Tasks : TimeoutFires(l)
    \/ \E t \in Tasks : LateAnswer(t)
    \/ \E k \in DirectKinds : DirectCallBegins(k)
    \/ \E k \in DirectKinds : DirectCallSettles(k)

\* C17: every call a ClientBase makes to the Twitter endpoint goes through
\* its requestQueue, so no two of its calls are in flight together.
C17_OneExternalCallInFlight == Cardinality(ExternalInFlight) <= 1

\* C18: the requests in the queue race their call against a timeout that
\* resolves to a default, so a call that never answers cannot hang the
\* queue: every request added is eventually started.
C18_UnansweredCallCannotHang ==
    \A t \in Tasks : [](Added(t) => <>(attempts[t] >= 1))

\* ------------------------------------------------- RequestQueue properties

\* C1: at most one enqueued task is executing (started and not yet settled)
\* at any time, whatever the interleaving of add() calls and completions.
C1_AtMostOneExecuting ==
    \A a, b \in Tasks :
        /\ running[a] <= 1
        /\ (running[a] > 0 /\ running[b] > 0) => a = b

\* A task is executing while a task added during its execution waits.
C1_Witness ==
    \E a, b \in Tasks : a # b /\ running[a] = 1 /\ processing /\ Len(queue) > 0
                        /\ queue[1] = b

\* C2: a task that fails twice and then succeeds is executed exactly three
\* times, with strictly increasing delay between the attempts, and its
\* promise resolves with the success value, only after the third attempt.
C2_FailTwiceThenSucceed ==
    \A t \in Tasks :
        (plan[t] = 2 /\ promise[t] \in {"resolved", "rejected"}) =>
            /\ attempts[t] = 3
            /\ promise[t] = "resolved"
            /\ Len(delays[t]) = 2
            /\ delays[t][1] < delays[t][2]

\* C3: the promise add() returned is settled exactly once, by the task's
\* result or by its error, and not before the queue has run the task.
C3_SettledOnceAfterRun ==
    \A t \in Tasks :
        /\ settleCalls[t] <= 1
        /\ (promise[t] \in {"resolved", "rejected"}) <=> (settleCalls[t] = 1)
        /\ (promise[t] \in {"resolved", "rejected"}) =>
              /\ attempts[t] >= 1
              /\ running[t] = 0
              /\ (promise[t] = "rejected") <=> AttemptFails(t, attempts[t])
        /\ (attempts[t] >= 1 /\ running[t] = 0) =>
              promise[t] \in {"resolved", "rejected"}

\* One promise has been rejected with its task's error and another resolved
\* with its task's result.
C3_Witness ==
    \E a, b \in Tasks : /\ promise[a] = "rejected" /\ settleCalls[a] = 1
                        /\ promise[b] = "resolved" /\ settleCalls[b] = 1

\* C4: tasks that do not fail start in the order of their add() calls: when
\* add(A) came before add(B), B has not started unless A has started and
\* settled.
C4_StartOrder ==
    \A a, b \in Tasks :
        (a < b /\ Added(a) /\ Added(b) /\ plan[a] = 0 /\ plan[b] = 0
           /\ attempts[b] >= 1) =>
            /\ attempts[a] >= 1
            /\ running[a] = 0
            /\ promise[a] = "resolved"

\* Two non-failing tasks were queued together behind a running task and the
\* later one has started.
C4_Witness ==
    \E a, b \in Tasks : /\ a < b /\ plan[a] = 0 /\ plan[b] = 0
                        /\ promise[a] = "resolved" /\ running[b] = 1
                        /\ \E c \in Tasks : c < a /\ attempts[c] = 1

\* C5: a failed task is re-inserted at the head and retried, so while its
\* latest attempt is a failure no task enqueued behind it has started.
C5_FailedTaskStallsQueue ==
    \A a, b \in Tasks :
        (a < b /\ attempts[a] >= 1 /\ running[a] = 0
           /\ AttemptFails(a, attempts[a])) => attempts[b] = 0

\* Attempts of task t that have failed and settled.
SettledFailures(t) ==
    LET settled == attempts[t] - running[t]
    IN IF settled < plan[t] THEN settled ELSE plan[t]

\* C30: before each retry of a failing task the queue sleeps, and the delay
\* after the k-th consecutive failure of the task is the base delay times
\* 2^k.
C30_BackoffDoublesPerFailure ==
    \A t \in Tasks :
        \A k \in 1..SettledFailures(t) :
            /\ Len(delays[t]) >= k
            /\ delays[t][k] = ExponentialBackoff(k)

\* C36: no task is stranded: whenever the queue is not empty a processing
\* loop is active, and every task passed to add() is started at some time,
\* each request that is started being taken to settle; this includes a task
\* added while the loop is in its jitter delay after the last queued task.
C36_NoTaskStranded ==
    /\ [](Len(queue) > 0 =>
            processing /\ \E l \in Tasks : loopPc[l] # "idle")
    /\ \A t \in Tasks : (Added(t) ~> attempts[t] >= 1)

\* A task that was added while the loop slept its jitter delay, with nothing
\* queued, has been started by that same loop.
C36_Witness ==
    \E t \in Tasks, l \in Tasks :
        /\ addedIn[t] = "delay" /\ l < t
        /\ \A u \in Tasks : (u < t /\ Added(u)) => (attempts[u] >= 1 /\ running[u] = 0)
        /\ loopPc[l] = "await" /\ loopReq[l] = t /\ running[t] = 1

\* --------------------------------------------- TwitterService.createClient
Calls == 1..MaxCalls
ClientIds == {"c1", "c2"}
AgentIds == {"agent"}

\* getClientKey: `${clientId}-${agentId}`; agentId is a fixed-length UUID, so
\* the string determines the pair.
GetClientKey(clientId, agentId) == <<clientId, agentId>>
Keys == {GetClientKey(c, a) : c \in ClientIds, a \in AgentIds}

\* getService: this.clients.get(key), undefined (0) when there is no entry.
GetService(clientId, agentId) == clients[GetClientKey(clientId, agentId)]

TwInit ==
    /\ clients = [k \in Keys |-> 0]
    /\ instKey = << >>
    /\ started = {}
    /\ ccPc = [c \in Calls |-> "idle"]
    /\ ccKey = [c \in Calls |-> <<"", "">>]
    /\ ccInst = [c \in Calls |-> 0]
    /\ scPc = "idle"
    /\ scKey = <<"", "">>
    /\ scDepth = 0
    /\ scCalls = 0

\* Calls are named in the order they are made.
NextCall == IF \E c \in Calls : ccPc[c] = "idle"
            THEN CHOOSE c \in Calls : ccPc[c] = "idle"
                                      /\ \A d \in Calls : d < c => ccPc[d] # "idle"
            ELSE 0

\* createClient up to `await client.client.init()`: the existing client is
\* returned, or a new TwitterClientInstance is constructed.
CreateClientBegin(c, clientId, agentId) ==
    /\ c = NextCall
    /\ ccKey' = [ccKey EXCEPT ![c] = GetClientKey(clientId, agentId)]
    /\ LET existingClient == GetService(clientId, agentId)
       IN IF existingClient # 0
          THEN /\ ccPc' = [ccPc EXCEPT ![c] = "done"]
               /\ ccInst' = [ccInst EXCEPT ![c] = existingClient]
               /\ UNCHANGED instKey
          ELSE /\ instKey' = Append(instKey, GetClientKey(clientId, agentId))
               /\ ccInst' = [ccInst EXCEPT ![c] = Len(instKey) + 1]
               /\ ccPc' = [ccPc EXCEPT ![c] = "init"]
    /\ UNCHANGED <<clients, started, scPc, scKey, scDepth, scCalls>>
    /\ UNCHANGED notTwitter

\* init() settles: on success post/interaction start and the instance is
\* stored under its key; on failure the error is rethrown to the caller.
CreateClientInitSettles(c, ok) ==
    /\ ccPc[c] = "init"
    /\ IF ok
       THEN /\ started' = started \cup {ccInst[c]}
            /\ clients' = [clients EXCEPT ![ccKey[c]] = ccInst[c]]
            /\ ccPc' = [ccPc EXCEPT ![c] = "done"]
       ELSE /\ ccPc' = [ccPc EXCEPT ![c] = "failed"]
            /\ UNCHANGED <<started, clients>>
    /\ UNCHANGED <<instKey, ccKey, ccInst, scPc, scKey, scDepth, scCalls>>
    /\ UNCHANGED notTwitter

TwNext ==
    \/ \E c \in Calls, ci \in ClientIds, a \in AgentIds : CreateClientBegin(c, ci, a)
    \/ \E c \in Calls, ok \in BOOLEAN : CreateClientInitSettles(c, ok)

\* ------------------------------------------------ TwitterService.stopClient
\* The keys this.clients has an entry for.
Registered == {k \in Keys : clients[k] # 0}

\* client.service of a registered TwitterClientInstance: the constructor sets
\* it to TwitterService.getInstance(), the service that holds the registry.
ClientService(inst) == "TwitterService.instance"

\* this.clients.delete(key)
Delete(reg, key) == [reg EXCEPT ![key] = 0]

\* stopClient(clientId, agentId) up to `await client.service.stop()`: without
\* an entry for the key it returns at once.
StopClientBegin(clientId, agentId) ==
    /\ scPc \in {"idle", "returned"}
    /\ scCalls < MaxStopCalls
    /\ scCalls' = scCalls + 1
    /\ scKey' = GetClientKey(clientId, agentId)
    /\ scDepth' = 0
    /\ scPc' = IF GetService(clientId, agentId) = 0 THEN "returned" ELSE "stop"
    /\ UNCHANGED <<clients, instKey, started, ccPc, ccKey, ccInst>>
    /\ UNCHANGED notTwitter

\* TwitterService.stop() is called: `await this.stopAllClients()`.
StopCallsStopAllClients ==
    /\ scPc = "stop"
    /\ scPc' = "stopAllClients"
    /\ UNCHANGED <<clients, instKey, started, ccPc, ccKey, ccInst, scKey,
                   scDepth, scCalls>>
    /\ UNCHANGED notTwitter

\* stopAllClients() takes the first entry of this.clients and calls
\* client.service.stop(), which is stop() of this same service, before
\* anything has been deleted.  With no entry left the loop body does not run
\* and stopAllClients() returns.
StopAllClientsCallsStop ==
    /\ scPc = "stopAllClients"
    /\ IF Registered = {}
       THEN /\ scPc' = "unwind"
            /\ UNCHANGED scDepth
       ELSE /\ \E k \in Registered : ClientService(clients[k]) = "TwitterService.instance"
            /\ scDepth' = IF scDepth < MaxDepth THEN scDepth + 1 ELSE MaxDepth
            /\ scPc' = "stop"
    /\ UNCHANGED <<clients, instKey, started, ccPc, ccKey, ccInst, scKey, scCalls>>
    /\ UNCHANGED notTwitter

\* The engine has no room for one more call: the call throws a RangeError,
\* which the catch of the innermost stopAllClients logs.
StackExhausted ==
    /\ scPc \in {"stop", "stopAllClients"}
    /\ scDepth >= 1
    /\ scPc' = "unwind"
    /\ UNCHANGED <<clients, instKey, started, ccPc, ccKey, ccInst, scKey,
                   scDepth, scCalls>>
    /\ UNCHANGED notTwitter

\* The await of one suspended stopAllClients returns: it deletes the entry it
\* was at and goes on with the entries left, calling stop() again, or is done.
StopUnwinds ==
    /\ scPc = "unwind"
    /\ scDepth >= 1
    /\ \E reg \in {clients} \cup {Delete(clients, k) : k \in Registered} :
         /\ (Registered # {}) => reg # clients
         /\ clients' = reg
         /\ IF \E k \in Keys : reg[k] # 0
            THEN /\ scPc' = "stop"
                 /\ UNCHANGED scDepth
            ELSE /\ UNCHANGED scPc
                 /\ scDepth' \in (IF scDepth = MaxDepth THEN {MaxDepth, MaxDepth - 1}
                                  ELSE {scDepth - 1})
    /\ UNCHANGED <<instKey, started, ccPc, ccKey, ccInst, scKey, scCalls>>
    /\ UNCHANGED notTwitter

\* stopClient's own await returns: this.clients.delete(key).
StopClientReturns ==
    /\ scPc = "unwind"
    /\ scDepth = 0
    /\ clients' = Delete(clients, scKey)
    /\ scPc' = "returned"
    /\ UNCHANGED <<instKey, started, ccPc, ccKey, ccInst, scKey, scDepth, scCalls>>
    /\ UNCHANGED notTwitter

\* The steps the program takes by itself once stopClient has been called.
StopRuns ==
    \/ StopCallsStopAllClients
    \/ StopAllClientsCallsStop
    \/ StopUnwinds
    \/ StopClientReturns

TwStopNext ==
    \/ \E c \in Calls, ci \in ClientIds, a \in AgentIds : CreateClientBegin(c, ci, a)
    \/ \E c \in Calls, ok \in BOOLEAN : CreateClientInitSettles(c, ok)
    \/ \E ci \in ClientIds, a \in AgentIds : StopClientBegin(ci, a)
    \/ StopCallsStopAllClients
    \/ StopAllClientsCallsStop
    \/ StackExhausted
    \/ StopUnwinds
    \/ StopClientReturns

\* ----------------------------------------------- createClient properties

\* C7: the registry check-and-insert is atomic: createClient calls for one
\* key that overlap construct, initialise and start at most one
\* TwitterClientInstance, and all return that same instance.
C7_AtomicCheckAndInsert ==
    \A c, d \in Calls :
        (ccKey[c] = ccKey[d] /\ ccPc[c] \in {"init", "done"}
           /\ ccPc[d] \in {"init", "done"}) => ccInst[c] = ccInst[d]

Insts == 1..MaxInst
NoSnapshot == [kind |-> "none", at |-> 0]

\* A call and its outcome: the instance, who made the call (start()'s initial
\* update, the timer, forceUpdate() or stop()), what the call did and what its
\* immediate caller got.
Event(i, o, r, c) == [inst |-> i, origin |-> o, result |-> r, caller |-> c]
NoEvent == Event(0, "none", "none", "none")

SolStartState ==
    /\ solCount = 0
    /\ solTimer = [i \in Insts |-> FALSE]
    /\ solPublicKey = [i \in Insts |-> FALSE]
    /\ solLastUpdate = [i \in Insts |-> 0]
    /\ clock = UPDATE_INTERVAL
    /\ walletCache = NoSnapshot
    /\ solCalls = {}
    /\ solStopped = [i \in Insts |-> FALSE]
    /\ solLast = NoEvent
    /\ solTickFailed = [i \in Insts |-> FALSE]

\* Before any start(): the setting BIRDEYE_API_KEY is set or not.
SolInit == SolStartState /\ birdeyeKey \in BOOLEAN
SolIdle == SolStartState /\ birdeyeKey = FALSE

\* A guard that does not look at `force`.
ReturnsCachedThoughForced(i, force, now) ==
    /\ now - solLastUpdate[i] < UPDATE_INTERVAL
    /\ walletCache # NoSnapshot

\* The interval guard of updateWalletData: the cached snapshot is returned
\* when the call is not forced, the interval has not passed and the cache
\* holds a snapshot.
ReturnsCached(i, force, now) ==
    /\ ~force
    /\ now - solLastUpdate[i] < UPDATE_INTERVAL
    /\ walletCache # NoSnapshot

\* updateWalletData(force) of instance i up to its first await on the
\* external source: "cached" (the snapshot is returned), "fetch" (a request
\* is on its way) or "threw".  With a Birdeye key the request URL reads
\* this.publicKey.toBase58(), which throws while the key is unset; without
\* one getTokenAccounts() is called with whatever publicKey is.
UpdateWalletDataResult(i, force) ==
    IF ReturnsCached(i, force, clock) THEN "cached"
    ELSE IF birdeyeKey /\ ~solPublicKey[i] THEN "threw"
    ELSE "fetch"

\* The calls in flight after that.
UpdateWalletDataBegin(i, origin, force) ==
    IF UpdateWalletDataResult(i, force) # "fetch" THEN solCalls
    ELSE IF birdeyeKey
         THEN solCalls \cup {[inst |-> i, origin |-> origin, now |-> clock,
                              path |-> "birdeye"]}
         ELSE solCalls \cup {[inst |-> i, origin |-> origin, now |-> clock,
                              path |-> IF solPublicKey[i] THEN "rpc" ELSE "rpcNoKey"]}

\* What start() gives its caller when the initial update has thrown or not:
\* the update is not awaited and its rejection goes to console.error.
StartReturns(threw) == "resolved"

\* What forceUpdate(), and the timer callback, give their caller:
\* `return await this.updateWalletData(true)`.
ForceUpdateReturns(threw) == IF threw THEN "rejected" ELSE "resolved"

\* What the immediate caller of a call of this origin has got once
\* updateWalletData has settled.
CallerGets(origin, threw) ==
    IF origin = "initial" THEN StartReturns(threw) ELSE ForceUpdateReturns(threw)

\* The same while updateWalletData is waiting on the external source.
CallerWaits(origin) ==
    IF origin = "initial" THEN StartReturns(FALSE) ELSE "pending"

\* The event of a call of updateWalletData up to its first await.
BeginEvent(i, origin, force) ==
    LET r == UpdateWalletDataResult(i, force)
    IN Event(i, origin, r,
             IF r = "fetch" THEN CallerWaits(origin) ELSE CallerGets(origin, r = "threw"))

CanCall(i, origin) ==
    /\ Cardinality(solCalls) < MaxInflight
    /\ \A c \in solCalls : ~(c.inst = i /\ c.origin = origin)

\* static start(runtime): a new SolanaService, its timer, the initial update.
\* No instance is looked up first; `if (solanaClient.updateInterval)` tests
\* the instance just constructed, whose updateInterval is null.
SolStart ==
    /\ solCount < MaxInst
    /\ Cardinality(solCalls) < MaxInflight
    /\ LET i == solCount + 1
       IN /\ solCount' = i
          /\ solTimer' = [solTimer EXCEPT ![i] = TRUE]
          /\ solCalls' = UpdateWalletDataBegin(i, "initial", FALSE)
          /\ solLast' = BeginEvent(i, "initial", FALSE)
    /\ UNCHANGED <<solPublicKey, solLastUpdate, clock, walletCache, birdeyeKey, solTickFailed,
                   solStopped>>
    /\ UNCHANGED notSolana

\* start() for a runtime that has no SolanaService yet.
SolStartOnce == solCount = 0 /\ SolStart

\* The then() of getWalletKey in the constructor runs.
SolKeyResolved(i) ==
    /\ i <= solCount
    /\ ~solPublicKey[i]
    /\ solPublicKey' = [solPublicKey EXCEPT ![i] = TRUE]
    /\ UNCHANGED <<solCount, solTimer, solLastUpdate, clock, walletCache,
                   solCalls, birdeyeKey, solTickFailed, solStopped, solLast>>
    /\ UNCHANGED notSolana

\* A stop() that leaves the interval armed.
StopTimerKeeps(armed) == armed

\* stop(): `if (this.updateInterval) { clearInterval(...); ... = null }`:
\* whether the timer is armed afterwards.
StopTimer(armed) == FALSE

\* stop() on instance i.
SolStop(i) ==
    /\ i <= solCount
    /\ solTimer' = [solTimer EXCEPT ![i] = StopTimer(@)]
    /\ solStopped' = [solStopped EXCEPT ![i] = TRUE]
    /\ solLast' = Event(i, "stop", IF solTimer[i] THEN "cleared" ELSE "noop", "resolved")
    /\ UNCHANGED <<solCount, solPublicKey, solLastUpdate, clock, walletCache,
                   solCalls, birdeyeKey, solTickFailed>>
    /\ UNCHANGED notSolana

\* A timer whose callback has let a rejection escape is cancelled.
TimerEndsOnFailedTick(armed, failed) == armed /\ ~failed

\* The setInterval callback is `async () => { await updateWalletData() }`:
\* whether the timer is armed after a tick whose refresh failed or not.
\* Nothing in the callback clears the interval.
TimerAfterTick(armed, failed) == armed

\* What a refresh that could not get the wallet data ends as.
FailedResults == {"threw", "rejected", "emptyOnFailure"}

\* The setInterval callback: updateWalletData().
SolTick(i) ==
    /\ i <= solCount
    /\ solTimer[i]
    /\ CanCall(i, "tick")
    /\ solCalls' = UpdateWalletDataBegin(i, "tick", FALSE)
    /\ solLast' = BeginEvent(i, "tick", FALSE)
    /\ LET failed == UpdateWalletDataResult(i, FALSE) \in FailedResults
       IN /\ solTimer' = [solTimer EXCEPT ![i] = TimerAfterTick(@, failed)]
          /\ solTickFailed' = [solTickFailed EXCEPT ![i] = @ \/ failed]
    /\ UNCHANGED <<solCount, solPublicKey, solLastUpdate, clock,
                   walletCache, birdeyeKey, solStopped>>
    /\ UNCHANGED notSolana

\* forceUpdate(): updateWalletData(true).
SolForceUpdate(i) ==
    /\ i <= solCount
    /\ CanCall(i, "force")
    /\ solCalls' = UpdateWalletDataBegin(i, "force", TRUE)
    /\ solLast' = BeginEvent(i, "force", TRUE)
    /\ UNCHANGED <<solCount, solTimer, solPublicKey, solLastUpdate, clock,
                   walletCache, birdeyeKey, solTickFailed, solStopped>>
    /\ UNCHANGED notSolana

\* The external source answers call c.  Birdeye: a portfolio ("ok"), an
\* answer without success/data ("fallback": on to the token accounts) or an
\* error after the retries ("throw"), which updateWalletData rethrows.  Token
\* accounts: the accounts ("ok") or an error, which getTokenAccounts turns
\* into an empty list, so that an empty portfolio is cached and returned.
SolUpdateSettles(c, outcome) ==
    /\ c \in solCalls
    /\ IF c.path = "birdeye"
       THEN \/ /\ outcome = "ok"
               /\ walletCache' = [kind |-> "birdeye", at |-> c.now]
               /\ solLastUpdate' = [solLastUpdate EXCEPT ![c.inst] = c.now]
               /\ solCalls' = solCalls \ {c}
               /\ solLast' = Event(c.inst, c.origin, "updated", CallerGets(c.origin, FALSE))
            \/ /\ outcome = "throw"
               /\ solCalls' = solCalls \ {c}
               /\ solLast' = Event(c.inst, c.origin, "rejected", CallerGets(c.origin, TRUE))
               /\ UNCHANGED <<walletCache, solLastUpdate>>
            \/ /\ outcome = "fallback"
               /\ solCalls' = (solCalls \ {c}) \cup {[c EXCEPT !.path = "rpc"]}
               /\ solLast' = Event(c.inst, c.origin, "fallback", CallerWaits(c.origin))
               /\ UNCHANGED <<walletCache, solLastUpdate>>
       ELSE /\ outcome \in {"ok", "throw"}
            /\ LET got == c.path = "rpc" /\ outcome = "ok"
               IN /\ walletCache' = [kind |-> IF got THEN "accounts" ELSE "empty",
                                     at |-> c.now]
                  /\ solLast' = Event(c.inst, c.origin,
                                      IF got THEN "updated" ELSE "emptyOnFailure",
                                      CallerGets(c.origin, FALSE))
            /\ solLastUpdate' = [solLastUpdate EXCEPT ![c.inst] = c.now]
            /\ solCalls' = solCalls \ {c}
    /\ LET failed == c.origin = "tick" /\ solLast'.result \in FailedResults
       IN /\ solTimer' = [solTimer EXCEPT ![c.inst] = TimerAfterTick(@, failed)]
          /\ solTickFailed' = [solTickFailed EXCEPT ![c.inst] = @ \/ failed]
    /\ UNCHANGED <<solCount, solPublicKey, clock, birdeyeKey, solStopped>>
    /\ UNCHANGED notSolana

\* Time passes.
SolAdvanceClock ==
    /\ clock < UPDATE_INTERVAL + MaxClockSteps * ClockStep
    /\ clock' = clock + ClockStep
    /\ UNCHANGED <<solCount, solTimer, solPublicKey, solLastUpdate, walletCache,
                   solCalls, birdeyeKey, solTickFailed, solStopped, solLast>>
    /\ UNCHANGED notSolana

SolCallRecords ==
    [inst : Insts, origin : {"initial", "tick", "force"},
     now : {UPDATE_INTERVAL + k * ClockStep : k \in 0..MaxClockSteps},
     path : {"birdeye", "rpc", "rpcNoKey"}]

SolNext ==
    \/ SolStart
    \/ \E i \in Insts : SolKeyResolved(i)
    \/ \E i \in Insts : SolStop(i)
    \/ \E i \in Insts : SolTick(i)
    \/ \E i \in Insts : SolForceUpdate(i)
    \/ \E c \in SolCallRecords, o \in {"ok", "throw", "fallback"} : SolUpdateSettles(c, o)
    \/ SolAdvanceClock

\* One service per runtime: start() is called once.
SolOneNext ==
    \/ SolStartOnce
    \/ \E i \in Insts : SolKeyResolved(i)
    \/ \E i \in Insts : SolStop(i)
    \/ \E i \in Insts : SolTick(i)
    \/ \E i \in Insts : SolForceUpdate(i)
    \/ \E c \in SolCallRecords, o \in {"ok", "throw", "fallback"} : SolUpdateSettles(c, o)
    \/ SolAdvanceClock

\* ------------------------------------------------ SolanaService properties

\* C6: start() twice with the same key returns the same service instance and
\* arms no second timer: one instance and at most one armed timer per key.
C6_OneInstanceOneTimerPerKey ==
    /\ solCount <= 1
    /\ Cardinality({i \in Insts : solTimer[i]}) <= 1

\* The step is a call of updateWalletData up to its first await.
BeginResults == {"cached", "fetch", "threw"}
UpdateBegins ==
    /\ solLast'.result \in BeginResults
    /\ (solLast' # solLast \/ solCalls' # solCalls)

\* C11: the interval guard decides every refresh: a call of updateWalletData
\* goes on to the external source if and only if it is forced or
\* now - lastUpdate >= UPDATE_INTERVAL; an unforced call inside the interval
\* returns the cached snapshot with no request and no cache write, and
\* forceUpdate() always goes past the guard.
C11_IntervalGuardDecides ==
    [][UpdateBegins =>
         LET e == solLast'
             forced == e.origin = "force"
             elapsed == clock - solLastUpdate[e.inst] >= UPDATE_INTERVAL
         IN /\ (e.result \in {"fetch", "threw"}) <=> (forced \/ elapsed)
            /\ (e.result = "fetch") <=> (solCalls' # solCalls)
            /\ (e.result = "cached") =>
                  /\ walletCache # NoSnapshot
                  /\ UNCHANGED <<walletCache, solLastUpdate, solCalls>>
            /\ forced => e.result # "cached"]_vars

\* A timer tick inside the interval has returned the cached snapshot while a
\* forced update made inside the interval is on its way.
C11_Witness ==
    /\ \E c \in solCalls : /\ c.origin = "force"
                           /\ c.now = clock
                           /\ c.now - solLastUpdate[c.inst] < UPDATE_INTERVAL
    /\ solLast.result = "cached" /\ solLast.origin = "tick"
    /\ walletCache # NoSnapshot

\* C12: a failed refresh leaves the previous snapshot intact: when
\* updateWalletData cannot get the wallet data from the external source, the
\* snapshot in the cache and lastUpdate are after the call what they were
\* before it.
C12_FailedRefreshKeepsSnapshot ==
    [][solLast'.result \in FailedResults =>
         UNCHANGED <<walletCache, solLastUpdate>>]_vars

\* C13: a refresh failure reaches the immediate caller as an error: a failing
\* forceUpdate() rejects, and a failing initial refresh makes start() fail.
C13_FailureReachesCaller ==
    (solLast.origin \in {"force", "initial"} /\ solLast.result \in FailedResults)
        => solLast.caller = "rejected"

\* A timer tick starts a refresh on instance i in this step.
TickBegins(i) ==
    /\ UpdateBegins
    /\ solLast'.inst = i
    /\ solLast'.origin = "tick"

\* C14: after stop() has returned on an instance its timer is cancelled and
\* no later tick starts a refresh; a further stop() changes nothing.
C14_StopCancelsTimer ==
    [][\A i \in Insts :
         solStopped[i] =>
            /\ ~solTimer[i] /\ ~solTimer'[i]
            /\ ~TickBegins(i)
            /\ (solLast' # solLast /\ solLast'.origin = "stop" /\ solLast'.inst = i) =>
                  /\ solLast'.result = "noop"
                  /\ UNCHANGED <<solCount, solPublicKey, solLastUpdate, clock,
                                 walletCache, solCalls, solStopped>>]_vars

\* stop() has been called a second time on an instance, with a snapshot in
\* the cache, an interval passed since its last refresh and nothing in flight.
C14_Witness ==
    \E i \in Insts :
        /\ solStopped[i] /\ solLast = Event(i, "stop", "noop", "resolved")
        /\ walletCache # NoSnapshot
        /\ clock - solLastUpdate[i] >= UPDATE_INTERVAL
        /\ solCalls = {}

C16_OneRefreshInFlight ==
    \A i \in Insts :
        Cardinality({c \in solCalls : c.inst = i /\ c.path \in {"birdeye", "rpc"}}) <= 1


\* ------------------------------------------- ClientBase.populateTimeline
TweetIds == 1..MaxTweets
ProfileId == "me"
NoCache == [present |-> FALSE, tweets |-> << >>]

\* tweet.userId and tweet.conversationId of the tweet with id t: tweet 2 is a
\* reply in the conversation tweet 1 opened, every other tweet opens its own.
UserId(t) == IF t = selfTweet THEN ProfileId ELSE <<"user", t>>
ConversationId(t) == IF t = 2 THEN 1 ELSE t

\* createUniqueUuid(runtime, baseId): a deterministic id from the agent and
\* the base id.
CreateUniqueUuid(baseId) == <<"agent", baseId>>

\* Strictly increasing sequences over S of length at most n.
RECURSIVE SeqOfSet(_)
SeqOfSet(S) ==
    IF S = {} THEN << >>
    ELSE LET m == CHOOSE x \in S : \A y \in S : x <= y
         IN <<m>> \o SeqOfSet(S \ {m})
Batches(n) == {SeqOfSet(S) : S \in {T \in SUBSET TweetIds : Cardinality(T) <= n}}
Range(q) == {q[i] : i \in 1..Len(q)}

\* The Memory populateTimeline builds for a tweet.
MemoryOf(t) == [id |-> CreateUniqueUuid(t),
                roomId |-> CreateUniqueUuid(ConversationId(t))]
MemIds == {m.id : m \in mem}

TlStartState ==
    /\ cachedMentions = << >>
    /\ tweetCache = {}
    /\ tlPc = "idle"
    /\ tlPath = "none"
    /\ tlBatch = << >>
    /\ tlTodo = << >>
    /\ tlMemStart = {}
    /\ tlCreated = {}
    /\ tlCreateCalls = << >>
    /\ tlRuns = 0
    /\ tlOkRuns = 0

\* Before the first populateTimeline: which tweet is the agent's own, what the
\* endpoint returns, the Memories the store holds (each in the room of its
\* tweet's conversation), and whether an earlier process left the timeline
\* in the cache.
TlInit ==
    /\ selfTweet \in 0..MaxTweets
    /\ fetchedTimeline \in Batches(MaxTweets)
    /\ fetchedMentions \in Batches(MaxMentions)
    /\ \E S \in SUBSET TweetIds : mem = {MemoryOf(t) : t \in S}
    /\ cachedTimeline \in {NoCache, [present |-> TRUE, tweets |-> fetchedTimeline]}
    /\ TlStartState
TlIdle ==
    /\ selfTweet = 0
    /\ fetchedTimeline = << >>
    /\ fetchedMentions = << >>
    /\ mem = {}
    /\ cachedTimeline = NoCache
    /\ TlStartState

\* getMemoriesByRoomIds({roomIds}) mapped to the ids: existingMemoryIds.
ExistingMemoryIds(tweets) ==
    LET roomIds == {CreateUniqueUuid(ConversationId(t)) : t \in Range(tweets)}
    IN {m.id : m \in {x \in mem : x.roomId \in roomIds}}

\* getMemoryById(id) finds a record.
GetMemoryById(id) == \E m \in mem : m.id = id

\* A comparison that matches no tweet (userId against another field).
NeverSelf(t) == FALSE

\* tweet.userId === this.profile.id, as the cached path and as the fetch path
\* test it (in the filter and again in the loop).
SelfAuthoredCached(t) == UserId(t) = ProfileId
SelfAuthoredFetched(t) == UserId(t) = ProfileId

\* The existence test on the conversation's id in place of the tweet's.
AlreadyExistsByConversation(t, existing) ==
    CreateUniqueUuid(ConversationId(t)) \in existing

\* The filter of both paths: not self-authored and no Memory with the
\* tweet's id among the existing ones.
AlreadyExists(t, existing) == CreateUniqueUuid(t) \in existing

CachedTweetsToSave(tweets, existing) ==
    LET Keep(t) == ~SelfAuthoredCached(t) /\ ~AlreadyExists(t, existing)
    IN SelectSeq(tweets, Keep)
FetchTweetsToSave(tweets, existing) ==
    LET Keep(t) == ~SelfAuthoredFetched(t) /\ ~AlreadyExists(t, existing)
    IN SelectSeq(tweets, Keep)

\* someCachedTweetsExist
SomeCachedTweetsExist(tweets, existing) ==
    \E t \in Range(tweets) : AlreadyExists(t, existing)

\* A loop that ends after its first tweet (break for continue).
RestAfterBreak(todo) == << >>

\* The for loop over tweetsToSave: what is left after one tweet.
RestAfter(todo) == Tail(todo)

\* populateTimeline from its start to the first loop iteration: the cached
\* timeline is read; with a cached timeline of which some tweet has a Memory
\* the cached path is taken, else the home timeline and the mentions are
\* fetched.  fetchHomeTimeline is called directly and may throw.
PopulateBegin(fetchOk) ==
    /\ tlPc \in {"idle", "done", "failed"}
    /\ tlRuns < MaxRuns
    /\ tlRuns' = tlRuns + 1
    /\ tlMemStart' = MemIds
    /\ tlCreated' = {}
    /\ tlCreateCalls' = << >>
    /\ LET cached == cachedTimeline.tweets
           useCache == /\ cachedTimeline.present
                       /\ SomeCachedTweetsExist(cached, ExistingMemoryIds(cached))
           allTweets == fetchedTimeline \o fetchedMentions
       IN IF useCache
          THEN /\ fetchOk
               /\ tlPath' = "cached"
               /\ tlBatch' = cached
               /\ tlTodo' = CachedTweetsToSave(cached, ExistingMemoryIds(cached))
               /\ tlPc' = "loop"
          ELSE /\ tlPath' = "fetch"
               /\ IF fetchOk
                  THEN /\ tlBatch' = allTweets
                       /\ tlTodo' = FetchTweetsToSave(allTweets, ExistingMemoryIds(allTweets))
                       /\ tlPc' = "loop"
                  ELSE /\ tlBatch' = << >>
                       /\ tlTodo' = << >>
                       /\ tlPc' = "failed"
    /\ UNCHANGED <<selfTweet, fetchedTimeline, fetchedMentions, mem, cachedTimeline,
                   cachedMentions, tweetCache, tlOkRuns>>
    /\ UNCHANGED notTimeline

\* One loop iteration up to ensureConnection: a self-authored tweet is
\* skipped (continue); else ensureConnection is awaited and may throw.
PopulateEnsureConnection(ok) ==
    /\ tlPc = "loop"
    /\ tlTodo # << >>
    /\ LET tweet == Head(tlTodo)
           self == IF tlPath = "cached" THEN SelfAuthoredCached(tweet)
                   ELSE SelfAuthoredFetched(tweet)
       IN IF self
          THEN /\ ok
               /\ tlTodo' = RestAfter(tlTodo)
               /\ tlPc' = "loop"
          ELSE /\ tlPc' = IF ok THEN "create" ELSE "failed"
               /\ UNCHANGED tlTodo
    /\ UNCHANGED <<selfTweet, fetchedTimeline, fetchedMentions, mem, cachedTimeline,
                   cachedMentions, tweetCache, tlPath, tlBatch, tlMemStart,
                   tlCreated, tlCreateCalls, tlRuns, tlOkRuns>>
    /\ UNCHANGED notTimeline

\* The cache after a tweet that is already in it no matter how createMemory
\* ended (cacheTweet ahead of createMemory).
TweetCacheBeforeCreate(created, tweet) == tweetCache \cup {tweet}

\* await this.cacheTweet(tweet) follows await createMemory(...) in both
\* loops: it is reached only when createMemory did not throw.
TweetCacheAfter(created, tweet) ==
    IF created THEN tweetCache \cup {tweet} ELSE tweetCache

\* The rest of the iteration.  Cached path: getMemoryById first, and a found
\* Memory ends the loop (break).  Then createMemory: "ok" inserts the record,
\* or, when a record with the id exists, leaves the store as it is; "throw"
\* is a failure of the store (DuplicateIdentifier included), which ends the
\* call.  After createMemory the tweet is cached.
PopulateCreateMemory(outcome) ==
    /\ tlPc = "create"
    /\ LET tweet == Head(tlTodo)
           id == CreateUniqueUuid(tweet)
       IN IF tlPath = "cached" /\ GetMemoryById(id)
          THEN /\ outcome = "ok"
               /\ tlTodo' = << >>
               /\ tlPc' = "loop"
               /\ UNCHANGED <<mem, tweetCache, tlCreated, tlCreateCalls>>
          ELSE /\ tlCreateCalls' = Append(tlCreateCalls, tweet)
               /\ tweetCache' = TweetCacheAfter(outcome = "ok", tweet)
               /\ IF outcome = "ok"
                  THEN /\ mem' = IF GetMemoryById(id) THEN mem
                                 ELSE mem \cup {MemoryOf(tweet)}
                       /\ tlCreated' = IF GetMemoryById(id) THEN tlCreated
                                       ELSE tlCreated \cup {tweet}
                       /\ tlTodo' = RestAfter(tlTodo)
                       /\ tlPc' = "loop"
                  ELSE /\ tlPc' = "failed"
                       /\ UNCHANGED <<mem, tlCreated, tlTodo>>
    /\ UNCHANGED <<selfTweet, fetchedTimeline, fetchedMentions, cachedTimeline,
                   cachedMentions, tlPath, tlBatch, tlMemStart, tlRuns, tlOkRuns>>
    /\ UNCHANGED notTimeline

\* The loop is over: the cached path returns; the fetch path caches the
\* timeline and the mentions.
PopulateFinish ==
    /\ tlPc = "loop"
    /\ tlTodo = << >>
    /\ tlPc' = "done"
    /\ tlOkRuns' = tlOkRuns + 1
    /\ IF tlPath = "fetch"
       THEN /\ cachedTimeline' = [present |-> TRUE, tweets |-> fetchedTimeline]
            /\ cachedMentions' = fetchedMentions
       ELSE UNCHANGED <<cachedTimeline, cachedMentions>>
    /\ UNCHANGED <<selfTweet, fetchedTimeline, fetchedMentions, mem, tweetCache,
                   tlPath, tlBatch, tlTodo, tlMemStart, tlCreated, tlCreateCalls,
                   tlRuns>>
    /\ UNCHANGED notTimeline

\* Another writer of the messages store (the interaction handler, a second
\* client of the agent) creates the Memory of tweet t.
OtherWriterCreates(t) ==
    /\ ~GetMemoryById(CreateUniqueUuid(t))
    /\ mem' = mem \cup {MemoryOf(t)}
    /\ UNCHANGED <<selfTweet, fetchedTimeline, fetchedMentions, cachedTimeline,
                   cachedMentions, tweetCache, tlPc, tlPath, tlBatch, tlTodo,
                   tlMemStart, tlCreated, tlCreateCalls, tlRuns, tlOkRuns>>
    /\ UNCHANGED notTimeline

TlNext ==
    \/ \E ok \in BOOLEAN : PopulateBegin(ok)
    \/ \E ok \in BOOLEAN : PopulateEnsureConnection(ok)
    \/ \E o \in {"ok", "throw"} : PopulateCreateMemory(o)
    \/ PopulateFinish

\* C35: for one SolanaService instance, under any interleaving of
\* overlapping refreshes, lastUpdate never decreases and the cached snapshot
\* is never replaced by the result of a refresh that started earlier than
\* the refresh that produced the snapshot in the cache.
C35_RefreshesNeverGoBack ==
    [][/\ \A i \in Insts : solLastUpdate'[i] >= solLastUpdate[i]
       /\ walletCache'.at >= walletCache.at]_vars

TlWritersNext ==
    \/ TlNext
    \/ \E t \in TweetIds : OtherWriterCreates(t)

\* C38: the initial refresh start() launches never reads the wallet public
\* key before the getWalletKey lookup started in the constructor has
\* assigned it: it neither throws on the unset key while building the
\* Birdeye request nor asks for the token accounts of an unset key.
C38_InitialRefreshSeesKey ==
    /\ \A c \in solCalls : c.origin = "initial" => c.path # "rpcNoKey"
    /\ solLast.origin = "initial" => solLast.result # "threw"

\* --------------------------------------------- populateTimeline properties

\* C8: reconciliation is idempotent: once a populateTimeline call has
\* completed successfully, a further call over the same fetched tweets
\* creates no Memory, so the set of Memory ids stays what it was.
C8_Idempotent == [][tlOkRuns >= 1 => MemIds' = MemIds]_vars

\* A second call has completed over a non-empty batch after a first call
\* that created Memories, and has created none.
C8_Witness ==
    /\ tlOkRuns = 2 /\ tlPc = "done"
    /\ tlBatch # << >> /\ tweetCache # {} /\ tlCreated = {}

\* The tweets of the batch that are not self-authored and whose Memory id
\* was not in the store when the call began.
Unseen == {t \in Range(tlBatch) :
             UserId(t) # ProfileId /\ CreateUniqueUuid(t) \notin tlMemStart}

\* C9: for a fetched batch of pairwise distinct ids populateTimeline creates
\* a Memory for exactly the tweets that are not self-authored and whose
\* Memory id is not yet in the store, and for no others.
C9_CreatesExactlyUnseen ==
    (tlPath = "fetch" /\ Len(tlBatch) = Cardinality(Range(tlBatch))) =>
        /\ tlCreated \subseteq Unseen
        /\ MemIds = tlMemStart \cup {CreateUniqueUuid(t) : t \in tlCreated}
        /\ tlPc = "done" =>
              /\ tlCreated = Unseen
              /\ Cardinality(MemIds \ tlMemStart) = Cardinality(Unseen)

\* Three tweets fetched, one of them already in the store: two new Memories.
C9_Witness ==
    /\ tlPath = "fetch" /\ tlPc = "done"
    /\ Len(tlBatch) = 3 /\ Cardinality(Range(tlBatch)) = 3
    /\ Cardinality({t \in Range(tlBatch) : CreateUniqueUuid(t) \in tlMemStart}) = 1
    /\ Cardinality(MemIds \ tlMemStart) = 2

\* C10: populateTimeline creates no Memory for a tweet authored by the
\* agent's own profile, on the cached path or on the fetch path.
C10_NoSelfAuthoredMemory ==
    \A t \in tlCreated : UserId(t) # ProfileId

\* The cached path has created a Memory from a cached timeline that holds a
\* self-authored tweet without a Memory.
C10_Witness ==
    /\ tlPath = "cached" /\ tlPc = "done" /\ tlCreated # {}
    /\ selfTweet \in Range(tlBatch)
    /\ CreateUniqueUuid(selfTweet) \notin MemIds

\* C19: a failure while ingesting one tweet (ensureConnection or
\* createMemory throwing for it) is isolated: the tweets after it in the
\* batch are still ingested, so when the call is over each of them has a
\* Memory.
C19_TweetFailureIsolated ==
    (tlPc = "failed" /\ tlTodo # << >>) =>
        \A t \in Range(Tail(tlTodo)) \ {Head(tlTodo)} :
            GetMemoryById(CreateUniqueUuid(t))

\* C31: for each tweet populateTimeline ingests the steps come in order:
\* createMemory is called for a tweet only in the step that follows a
\* completed ensureConnection for that same tweet, and a tweet enters the
\* cache only in a step in which createMemory for it has succeeded, so that
\* its Memory is in the store.
C31_IngestStepsInOrder ==
    [][/\ tlPc' = "create" =>
              /\ tlPc = "loop" /\ tlTodo # << >>
              /\ tlTodo' = tlTodo
       /\ tlCreateCalls' # tlCreateCalls /\ tlCreateCalls' # << >> =>
              /\ tlPc = "create"
              /\ tlCreateCalls'[Len(tlCreateCalls')] = Head(tlTodo)
       /\ \A t \in tweetCache' \ tweetCache :
              /\ tlPc = "create" /\ t = Head(tlTodo)
              /\ tlCreateCalls' = Append(tlCreateCalls, t)
              /\ \E m \in mem' : m.id = CreateUniqueUuid(t)]_vars

\* A call has failed in createMemory for its second tweet: the first tweet
\* is in the cache with its Memory, the second was handed to createMemory
\* and is not in the cache.
C31_Witness ==
    /\ tlPc = "failed" /\ Len(tlCreateCalls) = 2
    /\ tlCreateCalls[1] \in tweetCache
    /\ tlCreateCalls[2] \notin tweetCache
    /\ GetMemoryById(CreateUniqueUuid(tlCreateCalls[1]))
    /\ ~GetMemoryById(CreateUniqueUuid(tlCreateCalls[2]))

\* C37: within one populateTimeline run createMemory is called at most once
\* per Memory id, also when a tweet is both in the fetched home timeline and
\* in the fetched mentions.
C37_OneCreatePerMemoryId ==
    \A i, j \in 1..Len(tlCreateCalls) :
        i # j => CreateUniqueUuid(tlCreateCalls[i]) # CreateUniqueUuid(tlCreateCalls[j])

\* C39: when populateTimeline has returned through the cached path, every
\* cached tweet that is not self-authored has a Memory in the store, also
\* when another writer inserts Memories while the call runs.
C39_CachedPathLeavesNoGap ==
    (tlPath = "cached" /\ tlPc = "done") =>
        \A t \in Range(tlBatch) :
            UserId(t) # ProfileId => GetMemoryById(CreateUniqueUuid(t))

\* ---------------------------------------------------- knowledge.preprocess
\* A text is a sequence of characters, each a string of length one.
Whitespace == {" ", "\n", "\t", "\r"}
LineTerminators == {"\n", "\r"}
UpperCase == <<"A", "B", "C", "D", "E", "F", "G", "H", "I", "J", "K", "L", "M",
               "N", "O", "P", "Q", "R", "S", "T", "U", "V", "W", "X", "Y", "Z">>
LowerCase == <<"a", "b", "c", "d", "e", "f", "g", "h", "i", "j", "k", "l", "m",
               "n", "o", "p", "q", "r", "s", "t", "u", "v", "w", "x", "y", "z">>
Digits == {"0", "1", "2", "3", "4", "5", "6", "7", "8", "9"}

\* The characters of a match of [a-zA-Z0-9\s\-_./:?=&]
PlainChars ==
    Range(UpperCase) \cup Range(LowerCase) \cup Digits \cup Whitespace
        \cup {"-", "_", ".", "/", ":", "?", "=", "&"}

\* The other replaces of preprocess() need a backquote (code), a '[' (links),
\* a '<' (mentions, tags), a line of three or more of - * _ (rules) or a
\* "/*" (comments) to match, and leave a text that has none of them as it
\* is: the texts here have none.

\* The first position from "from" on that is past the text or holds a
\* character outside (SkipWhile) or inside (SkipUntil) the set.
SkipWhile(s, from, set) ==
    CHOOSE k \in from..(Len(s) + 1) :
        /\ \A m \in from..(k - 1) : s[m] \in set
        /\ (k = Len(s) + 1 \/ s[k] \notin set)
SkipUntil(s, from, set) ==
    CHOOSE k \in from..(Len(s) + 1) :
        /\ \A m \in from..(k - 1) : s[m] \notin set
        /\ (k = Len(s) + 1 \/ s[k] \in set)
Drop(s, n) == SubSeq(s, n + 1, Len(s))

\* .replace(/#{1,6}\s*(.*)/g, "$1"): up to six '#', the whitespace after
\* them (line ends included) and the rest of that line are replaced by the
\* rest of the line; the search goes on after it.
RECURSIVE StripHeaders(_)
StripHeaders(s) ==
    LET i == SkipUntil(s, 1, {"#"})
    IN IF i > Len(s)
       THEN s
       ELSE LET h == SkipWhile(s, i, {"#"})
                j == IF h > i + 6 THEN i + 6 ELSE h
                k == SkipWhile(s, j, Whitespace)
                e == SkipUntil(s, k, LineTerminators)
            IN SubSeq(s, 1, i - 1) \o SubSeq(s, k, e - 1)
                   \o StripHeaders(Drop(s, e - 1))

\* .replace(/(https?:\/\/)?(www\.)?([^\s]+\.[^\s]+)/g, "$3") on one run of
\* non-whitespace characters: a run with a '.' that is neither its first nor
\* its last character matches from its start to its end, and what is kept is
\* what follows the protocol and the "www." the match could take.
Http == <<"h", "t", "t", "p", ":", "/", "/">>
Https == <<"h", "t", "t", "p", "s", ":", "/", "/">>
Www == <<"w", "w", "w", ".">>
StartsWith(u, p) == Len(u) >= Len(p) /\ SubSeq(u, 1, Len(p)) = p
HasDot(u) == \E k \in 2..(Len(u) - 1) : u[k] = "."
AfterProtocol(u) ==
    IF StartsWith(u, Https) THEN Drop(u, Len(Https))
    ELSE IF StartsWith(u, Http) THEN Drop(u, Len(Http)) ELSE u
AfterWww(u) == IF StartsWith(u, Www) THEN Drop(u, Len(Www)) ELSE u
StripUrlToken(t) ==
    IF HasDot(AfterWww(AfterProtocol(t))) THEN AfterWww(AfterProtocol(t))
    ELSE IF HasDot(AfterProtocol(t)) THEN AfterProtocol(t)
    ELSE IF HasDot(AfterWww(t)) THEN AfterWww(t)
    ELSE t

RECURSIVE StripUrls(_)
StripUrls(s) ==
    IF s = << >> THEN << >>
    ELSE IF s[1] \in Whitespace THEN <<s[1]>> \o StripUrls(Tail(s))
    ELSE LET e == SkipUntil(s, 1, Whitespace)
         IN StripUrlToken(SubSeq(s, 1, e - 1)) \o StripUrls(Drop(s, e - 1))

\* .replace(/\/\/.*/g, ""): from "//" to the end of the line.
RECURSIVE StripLineComments(_)
StripLineComments(s) ==
    IF \A k \in 1..(Len(s) - 1) : ~(s[k] = "/" /\ s[k + 1] = "/")
    THEN s
    ELSE LET i == CHOOSE k \in 1..(Len(s) - 1) :
                      /\ s[k] = "/" /\ s[k + 1] = "/"
                      /\ \A m \in 1..(k - 1) : ~(s[m] = "/" /\ s[m + 1] = "/")
             e == SkipUntil(s, i, LineTerminators)
         IN SubSeq(s, 1, i - 1) \o StripLineComments(Drop(s, e - 1))

\* .replace(/\s+/g, " ")
RECURSIVE CollapseWhitespace(_)
CollapseWhitespace(s) ==
    IF s = << >> THEN << >>
    ELSE IF s[1] \in Whitespace
         THEN <<" ">> \o CollapseWhitespace(Drop(s, SkipWhile(s, 1, Whitespace) - 1))
         ELSE <<s[1]>> \o CollapseWhitespace(Tail(s))

\* .replace(/\n{3,}/g, "\n\n")
RECURSIVE CollapseBlankLines(_)
CollapseBlankLines(s) ==
    IF s = << >> THEN << >>
    ELSE LET e == SkipWhile(s, 1, {"\n"})
         IN IF e > 3 THEN <<"\n", "\n">> \o CollapseBlankLines(Drop(s, e - 1))
            ELSE <<s[1]>> \o CollapseBlankLines(Tail(s))

\* .replace(/[^a-zA-Z0-9\s\-_./:?=&]/g, "")
IsPlainChar(c) == c \in PlainChars
StripSpecialChars(s) == SelectSeq(s, IsPlainChar)

\* .trim()
Trim(s) ==
    LET a == SkipWhile(s, 1, Whitespace)
    IN IF a > Len(s)
       THEN << >>
       ELSE LET b == CHOOSE k \in a..Len(s) :
                         /\ s[k] \notin Whitespace
                         /\ \A m \in (k + 1)..Len(s) : s[m] \in Whitespace
            IN SubSeq(s, a, b)

\* .toLowerCase()
ToLowerCaseChar(c) ==
    IF \E k \in 1..Len(UpperCase) : UpperCase[k] = c
    THEN LowerCase[CHOOSE k \in 1..Len(UpperCase) : UpperCase[k] = c]
    ELSE c
ToLowerCase(s) == [k \in 1..Len(s) |-> ToLowerCaseChar(s[k])]

\* preprocess(content), for a content with none of the characters above.
Preprocess(content) ==
    IF content = << >>
    THEN << >>
    ELSE ToLowerCase(Trim(StripSpecialChars(CollapseBlankLines(
             CollapseWhitespace(StripLineComments(StripUrls(
                 StripHeaders(content))))))))

\* The contents preprocess() is tried on: every text of at most MaxTextLen
\* of these characters.
PpChars == {"a", "B", " ", "\n", "/", "!", "#", "."}
PpTexts == UNION {[1..n -> PpChars] : n \in 0..MaxTextLen}

PpStartState == ppOnce = << >> /\ ppTwice = << >> /\ ppPc = "content"
PpInit == ppText \in PpTexts /\ PpStartState
PpIdle == ppText = << >> /\ PpStartState

PreprocessOnce ==
    /\ ppPc = "content"
    /\ ppOnce' = Preprocess(ppText)
    /\ ppPc' = "once"
    /\ UNCHANGED <<ppText, ppTwice>>
    /\ UNCHANGED notPreprocess

PreprocessAgain ==
    /\ ppPc = "once"
    /\ ppTwice' = Preprocess(ppOnce)
    /\ ppPc' = "twice"
    /\ UNCHANGED <<ppText, ppOnce>>
    /\ UNCHANGED notPreprocess

PpNext == PreprocessOnce \/ PreprocessAgain

\* C22: preprocess is idempotent: applying it to a text it has already
\* produced gives that text again.
C22_PreprocessIdempotent == ppPc = "twice" => ppTwice = ppOnce

\* ----------------------------------------------------------- knowledge.set
DocIds == {"d1", "d2"}
NotIngested == {"none"}

\* item.content.text of item d.
Text(d) == docText[d]

\* splitChunks(text): the text cut into pieces of at most ChunkSize
\* characters, in order; no piece for the empty text.
ChunkSize == 24
SplitChunks(text) ==
    [i \in 1..((Len(text) + ChunkSize - 1) \div ChunkSize) |->
        SubSeq(text, (i - 1) * ChunkSize + 1,
               IF i * ChunkSize < Len(text) THEN i * ChunkSize ELSE Len(text))]

\* The texts items are made of: "## Title\n\nHello world.", a text of
\* punctuation only, and plain texts that fill from no chunk to MaxChunks.
TitledText ==
    <<"#", "#", " ", "T", "i", "t", "l", "e", "\n", "\n",
      "H", "e", "l", "l", "o", " ", "w", "o", "r", "l", "d", ".">>
PunctuationText == <<"!", "!">>
PlainTextOf(n) == [k \in 1..n |-> "a"]
KsTexts ==
    {TitledText, PunctuationText}
        \cup {PlainTextOf(n * ChunkSize) : n \in 0..MaxChunks}

\* stringToUuid(s): the same id for the same string, different ids for
\* different strings.
StringToUuid(s) == <<"uuid", s>>

\* An id made from the item's id alone.
FragmentIdOfItem(itemId, i) == StringToUuid(<<itemId, "-fragment-">>)

\* stringToUuid(`${item.id}-fragment-${i}`)
FragmentId(itemId, i) == StringToUuid(<<itemId, "-fragment-", i>>)

\* fragmentMemory for position i (from 0) of the chunks.
FragmentMemory(d, i, fragments, now) ==
    [id |-> FragmentId(d, i),
     content |-> [text |-> fragments[i + 1]],
     metadata |-> [type |-> "fragment", documentId |-> d, position |-> i,
                   timestamp |-> now]]

\* createMemory(record) on a store keyed by id: create if absent.
CreateMemory(store, record) ==
    IF \E r \in store : r.id = record.id THEN store ELSE store \cup {record}

KsStartState ==
    /\ docStore = {}
    /\ fragStore = {}
    /\ ksPc = "idle"
    /\ ksDoc = "d1"
    /\ ksI = 0
    /\ ksIds = {}
    /\ ksFirst = [d \in DocIds |-> NotIngested]
    /\ ksRuns = 0

\* Before the first set(): the items there are, by their text.
KsInit == docText \in [DocIds -> KsTexts] /\ KsStartState
KsIdle == docText = [d \in DocIds |-> << >>] /\ KsStartState

\* A set() that goes on to the fragments whatever the document write did.
AfterDocumentWriteIgnored(ok) == "loop"

\* await documentsManager.createMemory(documentMemory) stands before the
\* split and the loop: when it throws, set() rejects there.
AfterDocumentWrite(ok) == IF ok THEN "loop" ELSE "failedDocument"

\* set(runtime, item) up to the loop: the document record is created (or
\* createMemory throws and set() rejects), then the text is split.
SetBegin(d, ok) ==
    /\ ksPc \in {"idle", "done", "failed", "failedDocument"}
    /\ ksRuns < MaxSetRuns
    /\ ksRuns' = ksRuns + 1
    /\ ksDoc' = d
    /\ ksI' = 0
    /\ ksIds' = {}
    /\ ksPc' = AfterDocumentWrite(ok)
    /\ docStore' = IF ok THEN docStore \cup {d} ELSE docStore
    /\ UNCHANGED <<docText, fragStore, ksFirst>>
    /\ UNCHANGED notKnowledge

\* One iteration of the loop: the fragment record for position i is created,
\* or createMemory throws and set() rejects.
SetFragment(ok) ==
    /\ ksPc = "loop"
    /\ LET fragments == SplitChunks(Text(ksDoc))
       IN /\ ksI < Len(fragments)
          /\ IF ok
             THEN LET fragmentMemory == FragmentMemory(ksDoc, ksI, fragments, ksRuns)
                  IN /\ fragStore' = CreateMemory(fragStore, fragmentMemory)
                     /\ ksIds' = ksIds \cup {fragmentMemory.id}
                     /\ ksI' = ksI + 1
                     /\ UNCHANGED ksPc
             ELSE /\ ksPc' = "failed"
                  /\ UNCHANGED <<fragStore, ksIds, ksI>>
    /\ UNCHANGED <<docText, docStore, ksDoc, ksFirst, ksRuns>>
    /\ UNCHANGED notKnowledge

\* i = fragments.length: set() returns.
SetReturns ==
    /\ ksPc = "loop"
    /\ ksI = Len(SplitChunks(Text(ksDoc)))
    /\ ksPc' = "done"
    /\ ksFirst' = [ksFirst EXCEPT ![ksDoc] = IF @ = NotIngested THEN ksIds ELSE @]
    /\ UNCHANGED <<docText, docStore, fragStore, ksDoc, ksI, ksIds, ksRuns>>
    /\ UNCHANGED notKnowledge

KsNext ==
    \/ \E d \in DocIds, ok \in BOOLEAN : SetBegin(d, ok)
    \/ \E ok \in BOOLEAN : SetFragment(ok)
    \/ SetReturns

\* ------------------------------------------------ knowledge.set properties

\* The fragment records of document d in the store.
FragmentsOf(d) == {f \in fragStore : f.metadata.documentId = d}

\* C20: for a document ingested by set() the number of fragment records
\* persisted equals the number of chunks splitChunks produced, the id of the
\* fragment at position i is a function of (documentId, i) alone, and
\* ingesting the same document again gives the same fragment ids.
C20_FragmentPerChunk ==
    ksPc = "done" =>
        LET n == Len(SplitChunks(Text(ksDoc)))
        IN /\ Cardinality(ksIds) = n
           /\ Cardinality(FragmentsOf(ksDoc)) = n
           /\ \A f \in FragmentsOf(ksDoc) :
                 /\ f.id = FragmentId(ksDoc, f.metadata.position)
                 /\ f.metadata.position \in 0..(n - 1)
                 /\ f.id \in ksIds
           /\ ksIds = ksFirst[ksDoc]

\* A document of two chunks has been ingested a second time, after an
\* ingestion of it that failed half way and one that completed.
C20_Witness ==
    /\ ksPc = "done" /\ ksRuns = 3
    /\ Cardinality(ksIds) = 2
    /\ \E f \in FragmentsOf(ksDoc) : f.metadata.timestamp = 1
    /\ \E f \in FragmentsOf(ksDoc) : f.metadata.timestamp = 2

\* C21: when persisting the fragment at position i fails, that fragment is
\* skipped, the fragments at the later positions are still persisted, and
\* the call does not end in failure.
C21_FragmentFailureIsolated ==
    ksPc = "failed" =>
        \A j \in (ksI + 1)..(Len(SplitChunks(Text(ksDoc))) - 1) :
            \E f \in FragmentsOf(ksDoc) : f.id = FragmentId(ksDoc, j)

\* C23: set() normalizes the text with preprocess before splitting it, so
\* the fragment at position i holds the i-th chunk of the normalized text;
\* for "## Title\n\nHello world." that is one fragment, "title hello world.".
C23_SetSplitsNormalizedText ==
    ksPc = "done" =>
        LET chunks == SplitChunks(Preprocess(Text(ksDoc)))
        IN /\ Cardinality(FragmentsOf(ksDoc)) = Len(chunks)
           /\ \A f \in FragmentsOf(ksDoc) :
                 /\ f.metadata.position + 1 \in 1..Len(chunks)
                 /\ f.content.text = chunks[f.metadata.position + 1]

\* C24: when the text of the item normalizes to the empty text, set() does
\* nothing: no document record, no fragment record and no error.
C24_EmptyTextIsNoOp ==
    (ksPc # "idle" /\ Preprocess(Text(ksDoc)) = << >>) =>
        /\ ksDoc \notin docStore
        /\ FragmentsOf(ksDoc) = {}
        /\ ksPc \notin {"failed", "failedDocument"}

\* C32: set() persists the document record before it attempts any fragment,
\* and a failing document write ends the call: every fragment in the store
\* names a document whose record is in the store, and a call whose document
\* write failed has persisted no fragment.
C32_DocumentBeforeFragments ==
    /\ \A f \in fragStore : f.metadata.documentId \in docStore
    /\ ksPc = "failedDocument" =>
           /\ ksIds = {}
           /\ ksDoc \notin docStore => FragmentsOf(ksDoc) = {}

\* A first set() has stored one document with a fragment, and a second
\* set(), of the other document whose text has chunks, has failed in its
\* document write.
C32_Witness ==
    /\ ksPc = "failedDocument" /\ ksRuns = 2
    /\ SplitChunks(Text(ksDoc)) # << >>
    /\ ksDoc \notin docStore
    /\ \E f \in fragStore : f.metadata.documentId # ksDoc

\* ----------------------------------------------------------- knowledge.get
\* The ids fragments can name as their source: the items, and a document
\* that was never stored.
KgSources == DocIds \cup {"d3"}
KgMatch(d) == [source |-> d]
KgQueries == {<< >>, PunctuationText, <<"a">>}
LookupOutcomes == {"found", "null", "rejects"}

\* fragments.map(memory => memory.content.source)
AllSources(matches) == [i \in 1..Len(matches) |-> matches[i].source]

\* [...new Set(fragments.map(memory => memory.content.source))]: a Set keeps
\* its elements in the order they were first added.
RECURSIVE UniqueSources(_)
UniqueSources(matches) ==
    IF matches = << >>
    THEN << >>
    ELSE LET front == UniqueSources(SubSeq(matches, 1, Len(matches) - 1))
             last == matches[Len(matches)].source
         IN IF last \in Range(front) THEN front ELSE Append(front, last)

\* .filter(memory => memory !== null).map(memory => ({id, content})) on the
\* documents Promise.all gave, which are in the order of the sources.
IsFound(d) == kgLookup[d] = "found"
KnowledgeItems(sources) ==
    LET found == SelectSeq(sources, IsFound)
    IN [i \in 1..Len(found) |-> [id |-> found[i]]]

KgStartState == kgPc = "idle" /\ kgResult = << >>
KgInit ==
    /\ kgQuery \in KgQueries
    /\ kgMatches \in UNION {[1..n -> {KgMatch(d) : d \in KgSources}] : n \in 0..MaxMatches}
    /\ kgLookup \in [KgSources -> LookupOutcomes]
    /\ KgStartState
KgIdle ==
    /\ kgQuery = << >>
    /\ kgMatches = << >>
    /\ kgLookup = [d \in KgSources |-> "null"]
    /\ KgStartState

\* get(runtime, message) up to the embedding: [] for a message without text
\* or whose preprocessed text is empty.
GetBegin ==
    /\ kgPc = "idle"
    /\ IF kgQuery = << >> \/ Trim(Preprocess(kgQuery)) = << >>
       THEN kgPc' = "returnedEmpty"
       ELSE kgPc' = "search"
    /\ UNCHANGED <<kgQuery, kgMatches, kgLookup, kgResult>>
    /\ UNCHANGED notKnowledgeGet

\* useModel and searchMemories answer, or one of them throws.
GetSearch(ok) ==
    /\ kgPc = "search"
    /\ kgPc' = IF ok THEN "resolve" ELSE "failedSearch"
    /\ UNCHANGED <<kgQuery, kgMatches, kgLookup, kgResult>>
    /\ UNCHANGED notKnowledgeGet

\* Promise.all of one getMemoryById per unique source settles: rejected if
\* one of them rejects, else get() returns the documents found.
GetResolve ==
    /\ kgPc = "resolve"
    /\ LET uniqueSources == UniqueSources(kgMatches)
       IN IF \E d \in Range(uniqueSources) : kgLookup[d] = "rejects"
          THEN /\ kgPc' = "failedResolve"
               /\ UNCHANGED kgResult
          ELSE /\ kgPc' = "returned"
               /\ kgResult' = KnowledgeItems(uniqueSources)
    /\ UNCHANGED <<kgQuery, kgMatches, kgLookup>>
    /\ UNCHANGED notKnowledgeGet

KgNext ==
    \/ GetBegin
    \/ \E ok \in BOOLEAN : GetSearch(ok)
    \/ GetResolve

\* ------------------------------------------------ knowledge.get properties
\* The rank of the best-ranked matched fragment of document d.
BestRank(d) ==
    CHOOSE i \in 1..Len(kgMatches) :
        /\ kgMatches[i].source = d
        /\ \A j \in 1..(i - 1) : kgMatches[j].source # d
MatchedSources == {kgMatches[i].source : i \in 1..Len(kgMatches)}

\* C25: get() returns each document that a matched fragment names at most
\* once, the documents in the order of their best-ranked fragments, and
\* leaves out a document whose lookup finds nothing: such a lookup does not
\* make the call fail.
C25_EachDocumentOnceInRankOrder ==
    /\ kgPc = "returned" =>
          /\ \A i, j \in 1..Len(kgResult) :
                i < j => /\ kgResult[i].id # kgResult[j].id
                         /\ BestRank(kgResult[i].id) < BestRank(kgResult[j].id)
          /\ {kgResult[i].id : i \in 1..Len(kgResult)}
                = {d \in MatchedSources : kgLookup[d] = "found"}
    /\ kgPc = "failedResolve" => \E d \in MatchedSources : kgLookup[d] = "rejects"

\* get() has returned two documents for four fragments: the best and the
\* third fragment are of one document, the second is of a document whose
\* lookup found nothing, the last is of another document.
C25_Witness ==
    /\ kgPc = "returned"
    /\ Len(kgMatches) = 4
    /\ kgMatches[1].source = kgMatches[3].source
    /\ kgLookup[kgMatches[2].source] = "null"
    /\ Len(kgResult) = 2
    /\ kgResult[1].id = kgMatches[1].source
    /\ kgResult[2].id = kgMatches[4].source

\* ----------------------------------------------------- formatRelationships
\* .slice(0, 30)
SliceEnd == 30

RelTargets == <<"e1", "e2", "e3">>

\* The relationships tried: n edges, the i-th to the target i mod 3, tagged
\* i, with (i * step) mod m interactions (0: none recorded). With
\* m = MaxEdges + 1 and step 1 or MaxEdges the counts are distinct and not 0,
\* rising or falling along the list; with m = 5 there are ties and edges
\* without interactions.
Relationship(i, count) ==
    [tags |-> i, targetEntityId |-> RelTargets[(i % Len(RelTargets)) + 1],
     interactions |-> count]
RelSteps == {1, 7, MaxEdges}
RelModuli == {5, MaxEdges + 1}
RelLists ==
    {[i \in 1..n |-> Relationship(i, (i * step) % m)] :
        n \in 0..MaxEdges, step \in RelSteps, m \in RelModuli}

\* .filter(rel => rel.metadata?.interactions)
HasInteractions(rel) == rel.interactions # 0

\* .sort((a, b) => (b.metadata?.interactions || 0) - (a.metadata?.interactions || 0)):
\* descending, edges with the same count staying in their order.
InsertByInteractions(sorted, rel) ==
    LET k == Cardinality({i \in 1..Len(sorted) :
                             sorted[i].interactions >= rel.interactions})
    IN SubSeq(sorted, 1, k) \o <<rel>> \o SubSeq(sorted, k + 1, Len(sorted))
RECURSIVE SortByInteractions(_)
SortByInteractions(rels) ==
    IF rels = << >>
    THEN << >>
    ELSE InsertByInteractions(SortByInteractions(SubSeq(rels, 1, Len(rels) - 1)),
                              rels[Len(rels)])

Slice(q, end) == SubSeq(q, 1, IF Len(q) < end THEN Len(q) ELSE end)

\* The same without the slice.
SortedRelationshipsUncut(relationships) ==
    SortByInteractions(SelectSeq(relationships, HasInteractions))

\* sortedRelationships
SortedRelationships(relationships) ==
    Slice(SortByInteractions(SelectSeq(relationships, HasInteractions)), SliceEnd)

\* The entity map has an entry for every id.
InEntityMapAlways(id) == TRUE

\* entityMap.get(id) is set: getEntityById(id) gave an entity.
InEntityMap(id) == relLookup[id] = "found"

\* The text of one edge: the names and metadata of the entity, the tags of
\* the relationship.
FormatRelationship(rel) == [entity |-> rel.targetEntityId, tags |-> rel.tags]
HasEntity(rel) == InEntityMap(rel.targetEntityId)
FormattedRelationships(sorted) ==
    LET kept == SelectSeq(sorted, HasEntity)
    IN [i \in 1..Len(kept) |-> FormatRelationship(kept[i])]

RelStartState == relPc = "idle" /\ relOut = << >>
RelInit ==
    /\ relList \in RelLists
    /\ relLookup \in [Range(RelTargets) -> LookupOutcomes]
    /\ RelStartState
RelIdle ==
    /\ relList = << >>
    /\ relLookup = [e \in Range(RelTargets) |-> "null"]
    /\ RelStartState

\* formatRelationships(runtime, relationships): "" when no relationship has
\* interactions; else the entities are looked up with Promise.all, which
\* rejects if one lookup rejects, and the edges with an entity are rendered.
FormatRelationships ==
    /\ relPc = "idle"
    /\ LET sortedRelationships == SortedRelationships(relList)
       IN IF Len(sortedRelationships) = 0
          THEN /\ relPc' = "returned"
               /\ relOut' = << >>
          ELSE IF \E i \in 1..Len(sortedRelationships) :
                      relLookup[sortedRelationships[i].targetEntityId] = "rejects"
          THEN /\ relPc' = "failed"
               /\ UNCHANGED relOut
          ELSE /\ relPc' = "returned"
               /\ relOut' = FormattedRelationships(sortedRelationships)
    /\ UNCHANGED <<relList, relLookup>>
    /\ UNCHANGED notRelationships

RelNext == FormatRelationships

\* ------------------------------------------ formatRelationships properties
\* The relationship the rendered edge at position i of the text is of.
RenderedEdge(i) == relList[relOut[i].tags]
RenderedTags == {relOut[i].tags : i \in 1..Len(relOut)}

\* Relationships with interactions that come before relationship i when the
\* ones with more interactions go first and, among equals, the earlier one.
Ahead(i) ==
    {j \in 1..Len(relList) :
        \/ relList[j].interactions > relList[i].interactions
        \/ relList[j].interactions = relList[i].interactions /\ j < i}
IsTop(i) ==
    /\ relList[i].interactions # 0
    /\ Cardinality(Ahead(i)) < SliceEnd

\* C26: at most 30 relationships are rendered, none of them has 30 or more
\* relationships ahead of it by interaction count, and they are rendered by
\* falling count (strictly falling where the counts differ); when every
\* target resolves, exactly the top 30 are rendered.
C26_TopThirtyDescending ==
    relPc = "returned" =>
        /\ Len(relOut) <= SliceEnd
        /\ \A i \in 1..Len(relOut) : IsTop(relOut[i].tags)
        /\ \A i, j \in 1..Len(relOut) :
              i < j => /\ RenderedEdge(i).interactions >= RenderedEdge(j).interactions
                       /\ relOut[i].tags # relOut[j].tags
                       /\ RenderedEdge(i).interactions = RenderedEdge(j).interactions
                             => relOut[i].tags < relOut[j].tags
        /\ (\A e \in Range(RelTargets) : relLookup[e] = "found")
              => RenderedTags = {i \in 1..Len(relList) : IsTop(i)}

\* 40 relationships with 40 different counts, given by rising count, have
\* been rendered: the text has the 30 with the highest counts, the last of
\* the list first, and none of the first 10.
C26_Witness ==
    /\ relPc = "returned"
    /\ Len(relList) = 40
    /\ \A i, j \in 1..40 : i < j => relList[i].interactions < relList[j].interactions
    /\ Len(relOut) = 30
    /\ relOut[1].tags = 40
    /\ RenderedTags = 11..40

\* C27: a relationship whose target lookup finds no entity is left out of
\* the text, every other one of the top relationships is rendered, and the
\* text is empty when none is; the call fails only when a lookup rejects.
C27_UnresolvedTargetDropped ==
    /\ relPc = "returned" =>
          /\ RenderedTags =
                {i \in 1..Len(relList) :
                    IsTop(i) /\ relLookup[relList[i].targetEntityId] = "found"}
          /\ \A i \in 1..Len(relOut) : relOut[i].entity = RenderedEdge(i).targetEntityId
    /\ relPc = "failed" =>
          \E i \in 1..Len(relList) :
              IsTop(i) /\ relLookup[relList[i].targetEntityId] = "rejects"

\* Three relationships with interactions were given; the lookup of the
\* target of one found nothing, and the text has the other two.
C27_Witness ==
    /\ relPc = "returned"
    /\ Len(relList) = 3
    /\ \A i \in 1..3 : IsTop(i)
    /\ \E i \in 1..3 :
          /\ relLookup[relList[i].targetEntityId] = "null"
          /\ RenderedTags = (1..3) \ {i}

\* ------------------------------------------- SolanaService.fetchWithRetry
\* The two requests made through it: the prices and the wallet portfolio.
FwUrls == {"prices", "wallet"}

\* How one attempt can go: the body parsed as JSON, or fetch rejecting, a
\* response that is not ok, or a body that does not parse.
FwFailures == {"network", "http", "parse"}
FwOutcomes == {"json"} \cup FwFailures
NoError == [attempt |-> 0, kind |-> "none"]
NoResult == [kind |-> "none"]

\* The same delay after every failed attempt.
RetryDelayFlat(i) == RETRY_DELAY

\* PROVIDER_CONFIG.RETRY_DELAY * 2 ** i
RetryDelay(i) == RETRY_DELAY * (2 ^ i)

FwStartState ==
    /\ fwI = 0
    /\ fwPc = "idle"
    /\ fwAttempts = << >>
    /\ fwSleeps = << >>
    /\ fwLastError = NoError
    /\ fwResult = NoResult
FwInit == fwUrl \in FwUrls /\ FwStartState
FwIdle == fwUrl = "prices" /\ FwStartState

\* fetchWithRetry(url) is called: i = 0 and the first fetch is made.
FetchWithRetryBegin ==
    /\ fwPc = "idle"
    /\ fwPc' = "fetch"
    /\ UNCHANGED <<fwUrl, fwI, fwAttempts, fwSleeps, fwLastError, fwResult>>
    /\ UNCHANGED notFetchWithRetry

\* The attempt of iteration i settles. A parsed body is returned. A failure
\* is caught and kept as lastError; before the last iteration the timer of
\* the retry delay is set, after the last one the loop ends and lastError
\* is thrown.
FetchAttemptSettles(outcome) ==
    /\ fwPc = "fetch"
    /\ fwI < MAX_RETRIES
    /\ fwAttempts' = Append(fwAttempts, outcome)
    /\ IF outcome = "json"
       THEN /\ fwPc' = "returned"
            /\ fwResult' = [kind |-> "value", url |-> fwUrl, attempt |-> fwI + 1]
            /\ UNCHANGED <<fwI, fwSleeps, fwLastError>>
       ELSE LET error == [attempt |-> fwI + 1, kind |-> outcome]
            IN /\ fwLastError' = error
               /\ IF fwI < MAX_RETRIES - 1
                  THEN /\ fwSleeps' = Append(fwSleeps, RetryDelay(fwI))
                       /\ fwPc' = "sleep"
                       /\ UNCHANGED <<fwI, fwResult>>
                  ELSE /\ fwI' = fwI + 1
                       /\ fwPc' = "threw"
                       /\ fwResult' = [kind |-> "error", error |-> error]
                       /\ UNCHANGED fwSleeps
    /\ UNCHANGED fwUrl
    /\ UNCHANGED notFetchWithRetry

\* The retry delay has passed: i++ and the next fetch is made.
RetryTimerFires ==
    /\ fwPc = "sleep"
    /\ fwI' = fwI + 1
    /\ fwPc' = "fetch"
    /\ UNCHANGED <<fwUrl, fwAttempts, fwSleeps, fwLastError, fwResult>>
    /\ UNCHANGED notFetchWithRetry

FwNext ==
    \/ FetchWithRetryBegin
    \/ \E outcome \in FwOutcomes : FetchAttemptSettles(outcome)
    \/ RetryTimerFires

\* -------------------------------------------- fetchWithRetry properties
FailedAttempts == {k \in 1..Len(fwAttempts) : fwAttempts[k] \in FwFailures}

\* C28: fetchWithRetry makes at most MAX_RETRIES attempts; after the failed
\* attempt i (from 0) it waits RETRY_DELAY * 2^i, except after the last
\* attempt; it returns the result of the first attempt that succeeds, and it
\* throws, the error of the last attempt, only when all MAX_RETRIES failed.
C28_BoundedRetryWithBackoff ==
    /\ Len(fwAttempts) <= MAX_RETRIES
    /\ \A k \in 1..Len(fwAttempts) : k < Len(fwAttempts) => fwAttempts[k] \in FwFailures
    /\ Len(fwSleeps) =
          IF Cardinality(FailedAttempts) < MAX_RETRIES
          THEN Cardinality(FailedAttempts) ELSE MAX_RETRIES - 1
    /\ \A k \in 1..Len(fwSleeps) : fwSleeps[k] = RETRY_DELAY * (2 ^ (k - 1))
    /\ fwPc = "returned" <=>
          (fwAttempts # << >> /\ fwAttempts[Len(fwAttempts)] = "json")
    /\ fwPc = "returned" =>
          fwResult = [kind |-> "value", url |-> fwUrl, attempt |-> Len(fwAttempts)]
    /\ fwPc = "threw" <=> Cardinality(FailedAttempts) = MAX_RETRIES
    /\ fwPc = "threw" =>
          fwResult = [kind |-> "error",
                      error |-> [attempt |-> MAX_RETRIES,
                                 kind |-> fwAttempts[MAX_RETRIES]]]

\* Three attempts failed in three different ways: the call waited 2000 and
\* 4000, and threw the error of the third.
C28_Witness ==
    /\ fwPc = "threw"
    /\ fwAttempts = <<"network", "http", "parse">>
    /\ fwSleeps = <<2000, 4000>>
    /\ fwResult.error.kind = "parse"

\* ------------------------------------------------------ ClientBase.getTweet
GtCalls == 1..MaxGetCalls
GtTweetIds == {"1", "2"}
GtStartState ==
    /\ gtWrites = {}
    /\ gtPc = [c \in GtCalls |-> "idle"]
    /\ gtId = [c \in GtCalls |-> "1"]
    /\ gtServed = [c \in GtCalls |-> "none"]
    /\ gtAdds = << >>
    /\ gtResolved = {}

\* Before the first getTweet: the tweets an earlier cacheTweet left in the
\* cache.
GtInit == gtCache \in SUBSET GtTweetIds /\ GtStartState
GtIdle == gtCache = {} /\ GtStartState

\* getCachedTweet(tweetId): the cached value, or undefined.
GetCachedTweet(id) == id \in gtCache

\* A cacheTweet that awaits its setCache: the tweet is in the cache when
\* cacheTweet resolves, and no write is left behind.
CacheTweetAwaited(tweet) == [cache |-> gtCache \cup {tweet}, writes |-> gtWrites]

\* cacheTweet(tweet): setCache is called and its promise dropped, so the
\* write is on its way when cacheTweet resolves.
CacheTweet(tweet) == [cache |-> gtCache, writes |-> gtWrites \cup {tweet}]

\* getTweet(tweetId) up to its second await: getCachedTweet answers (or getCache
\* rejects, and getTweet with it); a cached tweet is returned, else the call
\* of twitterClient.getTweet is added to the requestQueue.
GetTweetBegin(c, id, lookupOk) ==
    /\ gtPc[c] = "idle"
    /\ gtId' = [gtId EXCEPT ![c] = id]
    /\ IF ~lookupOk
       THEN /\ gtPc' = [gtPc EXCEPT ![c] = "done"]
            /\ gtServed' = [gtServed EXCEPT ![c] = "failed"]
            /\ UNCHANGED gtAdds
       ELSE IF GetCachedTweet(id)
       THEN /\ gtPc' = [gtPc EXCEPT ![c] = "done"]
            /\ gtServed' = [gtServed EXCEPT ![c] = "cache"]
            /\ UNCHANGED gtAdds
       ELSE /\ gtPc' = [gtPc EXCEPT ![c] = "request"]
            /\ gtAdds' = Append(gtAdds, id)
            /\ UNCHANGED gtServed
    /\ UNCHANGED <<gtCache, gtWrites, gtResolved>>
    /\ UNCHANGED notGetTweet

\* The promise add() returned settles: with a tweet, which is handed to
\* cacheTweet and returned; with null (no such tweet), which cacheTweet
\* skips; or rejected.
GetTweetRequestSettles(c, outcome) ==
    /\ gtPc[c] = "request"
    /\ gtPc' = [gtPc EXCEPT ![c] = "done"]
    /\ gtServed' = [gtServed EXCEPT ![c] = outcome]
    /\ IF outcome = "fetched"
       THEN /\ gtCache' = CacheTweet(gtId[c]).cache
            /\ gtWrites' = CacheTweet(gtId[c]).writes
            /\ gtResolved' = gtResolved \cup {gtId[c]}
       ELSE UNCHANGED <<gtCache, gtWrites, gtResolved>>
    /\ UNCHANGED <<gtId, gtAdds>>
    /\ UNCHANGED notGetTweet

\* A setCache nobody awaits settles: the tweet is in the cache, or the write
\* failed and its rejection is unhandled.
SetCacheSettles(id, ok) ==
    /\ id \in gtWrites
    /\ gtWrites' = gtWrites \ {id}
    /\ gtCache' = IF ok THEN gtCache \cup {id} ELSE gtCache
    /\ UNCHANGED <<gtPc, gtId, gtServed, gtAdds, gtResolved>>
    /\ UNCHANGED notGetTweet

GtNext ==
    \/ \E c \in GtCalls, id \in GtTweetIds, ok \in BOOLEAN : GetTweetBegin(c, id, ok)
    \/ \E c \in GtCalls, o \in {"fetched", "null", "failed"} :
          GetTweetRequestSettles(c, o)
    \/ \E id \in GtTweetIds, ok \in BOOLEAN : SetCacheSettles(id, ok)

\* C33: getTweet(id) is cache-aside: a call that finds the tweet in the
\* cache adds no request to the requestQueue, and once some getTweet(id) has
\* resolved with a tweet, a getTweet(id) begun later adds no request either.
C33_CacheAside ==
    [][\A c \in GtCalls :
          (gtPc[c] = "idle" /\ gtPc'[c] # "idle"
             /\ (GetCachedTweet(gtId'[c]) \/ gtId'[c] \in gtResolved)) =>
              gtAdds' = gtAdds]_vars

\* ------------------------------------------- knowledge.set, then get
\* A read of the parent reference where set() wrote it.
MetadataDocumentId(memory) == memory.metadata.documentId

\* memory.content.source of a stored record: undefined when the content has
\* no such field.
Undefined == "undefined"
ContentSource(memory) ==
    IF "source" \in DOMAIN memory.content THEN memory.content.source
    ELSE Undefined

\* What searchMemories gives for the stored fragments it matched, by the
\* field get() reads from each.
StoredMatch(f) == [source |-> ContentSource(f), fragment |-> f.id]

\* documentsManager.getMemoryById(source) on the document store, then the
\* filter and the map of get().
InDocStore(source) == source \in docStore
StoredItems(sources) ==
    LET found == SelectSeq(sources, InDocStore)
    IN [i \in 1..Len(found) |-> [id |-> found[i]]]

\* get(runtime, message) over the stores set() wrote, no set() being under
\* way: the message has text, the search matches one or two of the stored
\* fragments, and each unique source is looked up among the documents.
GetStored(matched) ==
    /\ ksPc \in {"done", "failed", "failedDocument"}
    /\ matched # << >>
    /\ \A i \in 1..Len(matched) : matched[i] \in fragStore
    /\ kgQuery' = <<"a">>
    /\ kgMatches' = [i \in 1..Len(matched) |-> StoredMatch(matched[i])]
    /\ kgResult' = StoredItems(UniqueSources(kgMatches'))
    /\ kgPc' = "returned"
    /\ UNCHANGED kgLookup
    /\ UNCHANGED notKnowledgeGet

RoundTripNext ==
    \/ KsNext
    \/ \E a, b \in fragStore : GetStored(<<a>>) \/ GetStored(<<a, b>>)

\* The document set() wrote the fragment with this id for.
DocumentOfFragment(id) ==
    (CHOOSE f \in fragStore : f.id = id).metadata.documentId

\* C34: ingestion and retrieval round-trip: after a set() of a document has
\* succeeded, a get() whose search matches one of the document's fragments
\* returns that document.
C34_SetThenGetRoundTrip ==
    kgPc = "returned" =>
        \A i \in 1..Len(kgMatches) :
            LET d == DocumentOfFragment(kgMatches[i].fragment)
            IN ksFirst[d] # NotIngested =>
                  \E j \in 1..Len(kgResult) : kgResult[j].id = d

\* --------------------------------------------------------- ClientBase.init
\* A value of TWITTER_RETRY_LIMIT: not set, or <<n>>.
NoSetting == << >>
RetryLimits == {NoSetting} \cup {<<n>> : n \in 0..MaxRetryLimit}

\* a || b and a ?? d on such values: 0 is falsy, only a missing value is
\* nullish.
Truthy(a) == a # NoSetting /\ a[1] # 0
Or(a, b) == IF Truthy(a) THEN a ELSE b
Nullish(a, d) == IF a = NoSetting THEN d ELSE a

\* let retries = (this.state?.TWITTER_RETRY_LIMIT || getSetting(...)) ?? 3
Retries(state, setting) == Nullish(Or(state, setting), <<DEFAULT_RETRY_LIMIT>>)[1]

\* The limit that is configured: the state's, else the setting's, else 3.
ConfiguredLimit ==
    Nullish(Nullish(lgState, lgSetting), <<DEFAULT_RETRY_LIMIT>>)[1]

LgStartState ==
    /\ lgRetries = 0
    /\ lgPc = "idle"
    /\ lgAttempts = 0
    /\ lgLast = "none"
    /\ lgEver = FALSE
LgInit == lgState \in RetryLimits /\ lgSetting \in RetryLimits /\ LgStartState
LgIdle == lgState = NoSetting /\ lgSetting = NoSetting /\ LgStartState

\* while (retries > 0): the next iteration begins, or the loop is left for
\* fetchProfile.
WhileTest(retries) ==
    /\ lgPc' = IF retries > 0 THEN "isLoggedIn" ELSE "fetchProfile"
    /\ lgAttempts' = IF retries > 0 THEN lgAttempts + 1 ELSE lgAttempts

\* The end of an iteration that did not break: retries--, the throw at 0,
\* else the sleep of 2000 ms.
IterationFails ==
    /\ lgRetries' = lgRetries - 1
    /\ lgPc' = IF lgRetries - 1 = 0 THEN "threwLoginFailed" ELSE "sleep"
    /\ UNCHANGED lgAttempts

\* init() up to the first await of the loop (the credentials are there, the
\* cookies are set).
InitBegins ==
    /\ lgPc = "idle"
    /\ lgRetries' = Retries(lgState, lgSetting)
    /\ WhileTest(lgRetries')
    /\ UNCHANGED <<lgState, lgSetting, lgLast, lgEver>>
    /\ UNCHANGED notLogin

\* The first isLoggedIn() of an iteration answers or throws: true breaks,
\* false goes on to login(), a throw is caught and ends the iteration.
IsLoggedInBeforeLogin(answer) ==
    /\ lgPc = "isLoggedIn"
    /\ lgLast' = answer
    /\ lgEver' = (lgEver \/ answer = "true")
    /\ IF answer = "true"
       THEN lgPc' = "fetchProfile" /\ UNCHANGED <<lgRetries, lgAttempts>>
       ELSE IF answer = "false"
       THEN lgPc' = "login" /\ UNCHANGED <<lgRetries, lgAttempts>>
       ELSE IterationFails
    /\ UNCHANGED <<lgState, lgSetting>>
    /\ UNCHANGED notLogin

\* login() returns, or throws and ends the iteration.
LoginSettles(ok) ==
    /\ lgPc = "login"
    /\ IF ok
       THEN lgPc' = "isLoggedInAgain" /\ UNCHANGED <<lgRetries, lgAttempts>>
       ELSE IterationFails
    /\ UNCHANGED <<lgState, lgSetting, lgLast, lgEver>>
    /\ UNCHANGED notLogin

\* The isLoggedIn() after login(): true goes on to cache the cookies, false
\* or a throw ends the iteration.
IsLoggedInAfterLogin(answer) ==
    /\ lgPc = "isLoggedInAgain"
    /\ lgLast' = answer
    /\ lgEver' = (lgEver \/ answer = "true")
    /\ IF answer = "true"
       THEN lgPc' = "cacheCookies" /\ UNCHANGED <<lgRetries, lgAttempts>>
       ELSE IterationFails
    /\ UNCHANGED <<lgState, lgSetting>>
    /\ UNCHANGED notLogin

\* getCookies() and cacheCookies() inside the try: done, then break; or one
\* of them throws, which the catch takes for a failed login attempt.
CacheCookiesSettles(ok) ==
    /\ lgPc = "cacheCookies"
    /\ IF ok
       THEN lgPc' = "fetchProfile" /\ UNCHANGED <<lgRetries, lgAttempts>>
       ELSE IterationFails
    /\ UNCHANGED <<lgState, lgSetting, lgLast, lgEver>>
    /\ UNCHANGED notLogin

\* The sleep between two iterations ends.
LoginSleepEnds ==
    /\ lgPc = "sleep"
    /\ WhileTest(lgRetries)
    /\ UNCHANGED <<lgState, lgSetting, lgRetries, lgLast, lgEver>>
    /\ UNCHANGED notLogin

\* fetchProfile answers with a profile, with nothing ("Failed to load
\* profile") or throws.
FetchProfileSettles(outcome) ==
    /\ lgPc = "fetchProfile"
    /\ lgPc' = IF outcome = "profile" THEN "populateTimeline" ELSE "threwProfile"
    /\ UNCHANGED <<lgState, lgSetting, lgRetries, lgAttempts, lgLast, lgEver>>
    /\ UNCHANGED notLogin

\* loadLatestCheckedTweetId and populateTimeline settle: init() is over.
PopulateTimelineSettles(ok) ==
    /\ lgPc = "populateTimeline"
    /\ lgPc' = IF ok THEN "done" ELSE "threwPopulate"
    /\ UNCHANGED <<lgState, lgSetting, lgRetries, lgAttempts, lgLast, lgEver>>
    /\ UNCHANGED notLogin

LgNext ==
    \/ InitBegins
    \/ \E a \in {"true", "false", "threw"} : IsLoggedInBeforeLogin(a)
    \/ \E ok \in BOOLEAN : LoginSettles(ok)
    \/ \E a \in {"true", "false", "threw"} : IsLoggedInAfterLogin(a)
    \/ \E ok \in BOOLEAN : CacheCookiesSettles(ok)
    \/ LoginSleepEnds
    \/ \E o \in {"profile", "null", "threw"} : FetchProfileSettles(o)
    \/ \E ok \in BOOLEAN : PopulateTimelineSettles(ok)

\* init() is at or past fetchProfile.
PastLogin ==
    lgPc \in {"fetchProfile", "populateTimeline", "threwProfile", "threwPopulate", "done"}

\* C40: init() makes at most TWITTER_RETRY_LIMIT (default 3) login attempts,
\* makes no further attempt once isLoggedIn() has returned true, throws
\* the login error only when every attempt failed and the limit is used up,
\* and reaches fetchProfile and populateTimeline only after an isLoggedIn()
\* that returned true, for every configured limit, 0 included.
C40_LoginBoundedAndRequired ==
    /\ lgAttempts <= ConfiguredLimit
    /\ lgPc \in {"sleep", "threwLoginFailed"} => ~lgEver
    /\ lgPc = "threwLoginFailed" => lgAttempts = ConfiguredLimit
    /\ PastLogin => lgLast = "true"

\* ---------------------------------------------------------- specifications
InitQueue == QInit /\ TwInit /\ SolIdle /\ TlIdle /\ CbIdle /\ KsIdle /\ PpIdle /\ KgIdle /\ RelIdle /\ FwIdle /\ GtIdle /\ LgIdle
InitTwitter == QInit /\ TwInit /\ SolIdle /\ TlIdle /\ CbIdle /\ KsIdle /\ PpIdle /\ KgIdle /\ RelIdle /\ FwIdle /\ GtIdle /\ LgIdle
InitSolana == QInit /\ TwInit /\ SolInit /\ TlIdle /\ CbIdle /\ KsIdle /\ PpIdle /\ KgIdle /\ RelIdle /\ FwIdle /\ GtIdle /\ LgIdle
InitTimeline == QInit /\ TwInit /\ SolIdle /\ TlInit /\ CbIdle /\ KsIdle /\ PpIdle /\ KgIdle /\ RelIdle /\ FwIdle /\ GtIdle /\ LgIdle
InitKnowledge == QInit /\ TwInit /\ SolIdle /\ TlIdle /\ CbIdle /\ KsInit /\ PpIdle /\ KgIdle /\ RelIdle /\ FwIdle /\ GtIdle /\ LgIdle
InitPreprocess == QInit /\ TwInit /\ SolIdle /\ TlIdle /\ CbIdle /\ KsIdle /\ PpInit /\ KgIdle /\ RelIdle /\ FwIdle /\ GtIdle /\ LgIdle
InitKnowledgeGet == QInit /\ TwInit /\ SolIdle /\ TlIdle /\ CbIdle /\ KsIdle /\ PpIdle /\ KgInit /\ RelIdle /\ FwIdle /\ GtIdle /\ LgIdle
InitRelationships == QInit /\ TwInit /\ SolIdle /\ TlIdle /\ CbIdle /\ KsIdle /\ PpIdle /\ KgIdle /\ RelInit /\ FwIdle /\ GtIdle /\ LgIdle
InitFetchWithRetry == QInit /\ TwInit /\ SolIdle /\ TlIdle /\ CbIdle /\ KsIdle /\ PpIdle /\ KgIdle /\ RelIdle /\ FwInit /\ GtIdle /\ LgIdle
InitClientBase == QInit /\ TwInit /\ SolIdle /\ TlIdle /\ CbInit /\ KsIdle /\ PpIdle /\ KgIdle /\ RelIdle /\ FwIdle /\ GtIdle /\ LgIdle

InitGetTweet == QInit /\ TwInit /\ SolIdle /\ TlIdle /\ CbIdle /\ KsIdle /\ PpIdle /\ KgIdle /\ RelIdle /\ FwIdle /\ GtInit /\ LgIdle

InitLogin == QInit /\ TwInit /\ SolIdle /\ TlIdle /\ CbIdle /\ KsIdle /\ PpIdle /\ KgIdle /\ RelIdle /\ FwIdle /\ GtIdle /\ LgInit

SpecQueue == InitQueue /\ [][QNext]_vars

\* The timers fire and every request that is started settles.
SpecQueueFair ==
    /\ InitQueue /\ [][QNext]_vars
    /\ WF_vars(\E l \in Tasks : TimerFires(l))
    /\ WF_vars(\E l \in Tasks : TaskSettles(l))

SpecTwitter == InitTwitter /\ [][TwNext]_vars

\* The program goes on running; nothing makes the engine run out of stack.
SpecTwitterStop == InitTwitter /\ [][TwStopNext]_vars /\ WF_vars(StopRuns)

SpecSolanaStart == InitSolana /\ [][SolNext]_vars

SpecSolana == InitSolana /\ [][SolOneNext]_vars

SpecTimeline == InitTimeline /\ [][TlNext]_vars

SpecKnowledge == InitKnowledge /\ [][KsNext]_vars

SpecPreprocess == InitPreprocess /\ [][PpNext]_vars

SpecKnowledgeGet == InitKnowledgeGet /\ [][KgNext]_vars

SpecRelationships == InitRelationships /\ [][RelNext]_vars

SpecFetchWithRetry == InitFetchWithRetry /\ [][FwNext]_vars

\* The program's timers fire; whether the endpoint answers is up to it.
SpecClientBase == InitClientBase /\ [][CbNext]_vars /\ WF_vars(CbTimers)

SpecGetTweet == InitGetTweet /\ [][GtNext]_vars

SpecRoundTrip == InitKnowledge /\ [][RoundTripNext]_vars

\* populateTimeline beside other writers of the messages store.
SpecTimelineWriters == InitTimeline /\ [][TlWritersNext]_vars

SpecLogin == InitLogin /\ [][LgNext]_vars

====
